---- MODULE Spec2Model ----
(***************************************************************************)
(* Verification model of the crawl-and-extract engine of chatcbdai/uoa:    *)
(*   - utils/network.py      RateLimiter (token bucket under an async lock)*)
(*   - storage/sqlite.py     SQLiteStorage (connection pool, two tables)   *)
(*   - scrapers/unified_scraper.py  UnifiedScraper (crawl loops, cycles)   *)
(* Each component has its own next-state relation and specification over   *)
(* the one state vector; the variables of the other components stay put.   *)
(***************************************************************************)
EXTENDS Integers, Sequences, FiniteSets, TLC

Min(a, b) == IF a <= b THEN a ELSE b

None == "None"

(***************************************************************************)
(* RateLimiter (utils/network.py): bounds and state.                                         *)
(* Time is a discrete clock of ticks. Tokens are integers scaled by        *)
(* TokenScale: one token is TokenScale units, and rate_limit is the number *)
(* of units refilled per tick.                                             *)
(***************************************************************************)
\* units of one token
TokenScale == 2
\* the clock stops at MaxTime ticks
MaxTime == 6
\* acquire() calls issued in one behaviour
MaxAcquires == 4
\* longest jitter delay, in ticks (random.uniform rounded to the clock)
MaxJitter == 1
\* burst values the limiter is constructed with: 1..MaxBurst
MaxBurst == 2
\* rate_limit, in units per tick
RatePerTick == 1

Callers == {"t1", "t2"}

VARIABLES
    now,            \* time.time(), in ticks
    burst,          \* RateLimiter.burst, in tokens
    tokens,         \* RateLimiter.tokens, in units
    last_update,    \* RateLimiter.last_update
    rl_lock,        \* RateLimiter._lock: the caller holding it, or None
    rl_pc,          \* each caller's position in acquire()
    rl_wake,        \* each sleeping caller's wake-up time
    rl_obs,         \* tokens as left by the last refill step (line 51)
    issued,         \* acquire() calls made so far
    win_start,      \* start time of the first observed call, -1 before it
    win_calls,      \* callers whose running call is observed
    win_done        \* observed calls that have returned

rlvars == <<now, burst, tokens, last_update, rl_lock, rl_pc, rl_wake,
            rl_obs, issued, win_start, win_calls, win_done>>

(***************************************************************************)
(* URLs are sequences of tokens: "s" stands for a scheme and host          *)
(* (https://ex.com), ".e" for more host text (.evil.org), "/" for a slash, *)
(* any other token for a path segment, "*" for the wildcard of a pattern.  *)
(***************************************************************************)
UA == <<"s">>
UB == <<"s", "/", "d">>
UC == <<"s", "/", "d", "/", "a">>
Urls == {UA, UB, UC}
\* no url
NoUrl == <<>>

(***************************************************************************)
(* SQLiteStorage (storage/sqlite.py): bounds and state.                                      *)
(* Threads call the storage operations; every access to shared state that  *)
(* another thread can interleave with is a step of its own. A statement    *)
(* run by conn.execute is atomic (autocommit, isolation_level=None).       *)
(* A table is held as the rows of each key (url, source_url) in rowid      *)
(* order.                                                                  *)
(***************************************************************************)
\* max_connections values the store is constructed with: 1..MaxConnections
MaxConnections == 2
\* longest links list passed to save_links
MaxLinks == 2
\* CURRENT_TIMESTAMP takes the values 0..MaxStamp
MaxStamp == 1

Threads == {"w1", "w2"}
Conns == 1..MaxConnections
StoreUrls == {UA, UB}
Bodies == {"a", "b"}
\* link targets; "" is a link dictionary without url/href
Targets == {"x", "y", ""}
LinkLists == UNION {[1..n -> Targets] : n \in 0..MaxLinks}

VARIABLES
    max_connections,    \* SQLiteStorage.max_connections
    closed,             \* SQLiteStorage._closed
    pool,               \* SQLiteStorage._pool: queue of idle connections
    active,             \* SQLiteStorage._active_connections
    pool_lock,          \* SQLiteStorage._pool_lock: the thread holding it, or None
    conn_open,          \* connections on which close() has not been called
    scraped_content,    \* table scraped_content: url -> its rows
    scraped_links,      \* table scraped_links: source_url -> its rows
    stamp,              \* CURRENT_TIMESTAMP
    th,                 \* each thread's operation in flight and its position
    saved,              \* per url, content and html of the last executed save_content
    replaced            \* per source, links of the last save_links that returned

storevars == <<max_connections, closed, pool, active, pool_lock, conn_open,
               scraped_content, scraped_links, stamp, th, saved, replaced>>

(***************************************************************************)
(* UnifiedScraper (scrapers/unified_scraper.py): bounds and state.         *)
(***************************************************************************)
\* concurrent_requests values the scraper is constructed with: 1..MaxConcurrent
MaxConcurrent == 2
\* the page ceiling of _scrape_full_site (1000 at line 263), scaled down
PageCeiling == 2

\* scrape() invocations on the one scraper
Crawls == {"c1", "c2"}

VARIABLES
    concurrent_requests,    \* UnifiedScraper.concurrent_requests
    semaphore,              \* value of UnifiedScraper._semaphore
    scraped_urls,           \* UnifiedScraper.scraped_urls
    failed_urls,            \* UnifiedScraper.failed_urls
    page,                   \* the url loaded in the browser's one page, or NoUrl
    site,                   \* per url, the link sets its page may serve
    crawl,                  \* each scrape() invocation: phase, mode, frontier, batch
    cyc                     \* each invocation's _scrape_page_with_links tasks

crawlvars == <<concurrent_requests, semaphore, scraped_urls, failed_urls, page,
               site, crawl, cyc>>

(***************************************************************************)
(* ContentProcessor (processors/content.py): bounds and state.             *)
(***************************************************************************)
\* elements of a document, hrefs of a page
MaxElems == 2
MaxHrefs == 2

VARIABLES
    html_content,     \* the markup given to extract_content
    has_readability,  \* HAS_READABILITY: the readability package was imported
    summary,          \* what readability's Document(html).summary() does with the markup
    extraction,       \* what extract_content returned or raised
    hrefs,            \* the href attributes of the page's <a> tags, in order
    base_url,         \* the base_url given to extract_links
    last_extracted_html,  \* self._last_extracted_html
    written,          \* the file save_as_markdown wrote last: its url and the markup converted
    links_out         \* what extract_links returned

procvars == <<html_content, has_readability, summary, extraction, hrefs, base_url,
              links_out, last_extracted_html, written>>

(***************************************************************************)
(* SocialMediaOrchestrator (social_media/orchestrator.py): bounds, state.  *)
(***************************************************************************)
MaxPosts == 3

VARIABLES
    posts,          \* the posts of the call, after validate_media_files
    orch,           \* the position of post_to_platforms and its locals
    open_browsers,  \* the browsers created and not closed
    results         \* the results list

orchvars == <<posts, orch, open_browsers, results>>

(***************************************************************************)
(* TaskQueue, PriorityTaskQueue, TaskExecutor (tasks/): bounds, state.     *)
(***************************************************************************)
\* longest task list given to process_all
MaxTasks == 2
\* num_workers (3 by default, queue.py line 14)
NumWorkers == 3
\* stop_after_attempt(3), executor.py line 48
MaxAttempts == 3

Workers == 1..NumWorkers

VARIABLES
    queue_class,       \* the class of the queue object: TaskQueue or PriorityTaskQueue
    task_list,         \* the tasks given to process_all
    pa_pc,             \* the position of process_all
    queue,             \* self.queue: the items put and not yet taken
    unfinished_tasks,  \* self.queue._unfinished_tasks, what join() waits for
    running,           \* self._running
    task_results,      \* self.results
    workers,           \* the worker coroutines: position and task in hand
    attempts           \* how often the action of each task was attempted

taskvars == <<queue_class, task_list, pa_pc, queue, unfinished_tasks, running,
              task_results, workers, attempts>>

vars == <<rlvars, storevars, crawlvars, procvars, orchvars, taskvars>>

(***************************************************************************)
(* RateLimiter: operations                                                 *)
(***************************************************************************)
\* RateLimiter.__init__
RLInit ==
    /\ now = 0
    /\ burst \in 1..MaxBurst
    /\ tokens = burst * TokenScale
    /\ last_update = 0
    /\ rl_lock = None
    /\ rl_pc = [p \in Callers |-> "idle"]
    /\ rl_wake = [p \in Callers |-> 0]
    /\ rl_obs = burst * TokenScale
    /\ issued = 0
    /\ win_start = -1
    /\ win_calls = {}
    /\ win_done = 0

\* the refill without its cap
RefilledNoCap(tok, time_passed) == tok + time_passed * RatePerTick

\* line 51-54: tokens after the refill
Refilled(tok, time_passed) ==
    Min(burst * TokenScale, tok + time_passed * RatePerTick)

\* a sleep that ignores the deficit
SleepTimeZero(tok) == 0

\* line 59: (1 - tokens) / rate_limit, rounded up to whole ticks
SleepTime(tok) ==
    ((TokenScale - tok) + RatePerTick - 1) \div RatePerTick

\* line 73: consume one token
Consumed(tok) == tok - TokenScale

\* lines 47-80 up to the first suspension, run by the caller that holds the lock
AcquireBody(p, jitter, d) ==
    LET t == Refilled(tokens, now - last_update) IN
    /\ rl_lock' = p
    /\ last_update' = now
    /\ rl_obs' = t
    /\ IF t < TokenScale
       THEN /\ tokens' = t
            /\ rl_pc' = [rl_pc EXCEPT ![p] = IF jitter THEN "sleep_j" ELSE "sleep"]
            /\ rl_wake' = [rl_wake EXCEPT ![p] = now + SleepTime(t) + d]
       ELSE /\ tokens' = Consumed(t)
            /\ rl_pc' = [rl_pc EXCEPT ![p] = IF jitter THEN "jitter" ELSE "exit"]
            /\ rl_wake' = [rl_wake EXCEPT ![p] = now + d]

\* the observer starts its window at this call, or has started it before
Observe(p) ==
    \/ /\ win_start = -1
       /\ win_start' = now
       /\ win_calls' = {p}
    \/ /\ win_start = -1
       /\ UNCHANGED <<win_start, win_calls>>
    \/ /\ win_start # -1
       /\ win_calls' = win_calls \cup {p}
       /\ UNCHANGED win_start

\* a caller enters acquire(): line 46, and the body when the lock is free
AcquireCall(p) ==
    /\ rl_pc[p] = "idle"
    /\ issued < MaxAcquires
    /\ issued' = issued + 1
    /\ Observe(p)
    /\ IF rl_lock = None
       THEN \E jitter \in BOOLEAN : \E d \in 0..MaxJitter :
                /\ (~jitter => d = 0)
                /\ AcquireBody(p, jitter, d)
       ELSE /\ rl_pc' = [rl_pc EXCEPT ![p] = "wait_lock"]
            /\ UNCHANGED <<tokens, last_update, rl_lock, rl_wake, rl_obs>>
    /\ UNCHANGED <<now, burst, win_done>>
    /\ UNCHANGED <<storevars, crawlvars, procvars, orchvars, taskvars>>

\* a caller waiting at line 46 gets the lock
LockGranted(p) ==
    /\ rl_pc[p] = "wait_lock"
    /\ rl_lock = None
    /\ \E jitter \in BOOLEAN : \E d \in 0..MaxJitter :
            /\ (~jitter => d = 0)
            /\ AcquireBody(p, jitter, d)
    /\ UNCHANGED <<now, burst, issued, win_start, win_calls, win_done>>
    /\ UNCHANGED <<storevars, crawlvars, procvars, orchvars, taskvars>>

\* lines 66-73: the sleep returns, tokens are reset to one token and consumed
SleepDone(p) ==
    /\ rl_pc[p] \in {"sleep", "sleep_j"}
    /\ now >= rl_wake[p]
    /\ tokens' = Consumed(TokenScale)
    /\ last_update' = now
    /\ IF rl_pc[p] = "sleep_j"
       THEN \E d \in 0..MaxJitter :
                /\ rl_pc' = [rl_pc EXCEPT ![p] = "jitter"]
                /\ rl_wake' = [rl_wake EXCEPT ![p] = now + d]
       ELSE /\ rl_pc' = [rl_pc EXCEPT ![p] = "exit"]
            /\ rl_wake' = [rl_wake EXCEPT ![p] = now]
    /\ UNCHANGED <<now, burst, rl_lock, rl_obs, issued, win_start, win_calls, win_done>>
    /\ UNCHANGED <<storevars, crawlvars, procvars, orchvars, taskvars>>

\* lines 79-80 and the end of the async with: the lock is released
AcquireReturn(p) ==
    /\ rl_pc[p] \in {"jitter", "exit"}
    /\ now >= rl_wake[p]
    /\ rl_lock' = None
    /\ rl_pc' = [rl_pc EXCEPT ![p] = "idle"]
    /\ rl_wake' = [rl_wake EXCEPT ![p] = 0]
    /\ win_calls' = win_calls \ {p}
    /\ win_done' = IF p \in win_calls THEN win_done + 1 ELSE win_done
    /\ UNCHANGED <<now, burst, tokens, last_update, rl_obs, issued, win_start>>
    /\ UNCHANGED <<storevars, crawlvars, procvars, orchvars, taskvars>>

\* the wall clock advances
Tick ==
    /\ now < MaxTime
    /\ now' = now + 1
    /\ UNCHANGED <<burst, tokens, last_update, rl_lock, rl_pc, rl_wake,
                   rl_obs, issued, win_start, win_calls, win_done>>
    /\ UNCHANGED <<storevars, crawlvars, procvars, orchvars, taskvars>>

RLNext ==
    \/ \E p \in Callers : AcquireCall(p)
    \/ \E p \in Callers : LockGranted(p)
    \/ \E p \in Callers : SleepDone(p)
    \/ \E p \in Callers : AcquireReturn(p)
    \/ Tick

(***************************************************************************)
(* Claims on the RateLimiter                                               *)
(***************************************************************************)
\* C9: with burst >= 1 and a non-decreasing clock, 0 <= tokens <= burst holds
\* after the refill step and after the consume step of every acquire().
C9_TokensInRange ==
    /\ 0 <= tokens /\ tokens <= burst * TokenScale
    /\ 0 <= rl_obs /\ rl_obs <= burst * TokenScale

\* C9 witness: a refill after idle time hit the cap, and a later acquire that
\* found the bucket empty has consumed the token it slept for.
C9_Witness ==
    /\ issued >= 3
    /\ tokens = 0
    /\ rl_obs < TokenScale
    /\ \E p \in Callers : rl_pc[p] \in {"jitter", "exit"}

\* C10: the time from the start of the first to the completion of the N-th of
\* any N acquire() calls is at least (N - burst) / rate_limit.
C10_MinElapsed ==
    win_start # -1 =>
        (now - win_start) * RatePerTick >= (win_done - burst) * TokenScale

\* C10 witness: more calls than the burst have completed, in exactly the
\* minimal time.
C10_Witness ==
    /\ win_start # -1
    /\ win_done > burst
    /\ (now - win_start) * RatePerTick = (win_done - burst) * TokenScale

(***************************************************************************)
(* SQLiteStorage: operations                                               *)
(***************************************************************************)
IdleThread(res) ==
    [op |-> "none", pc |-> "idle", conn |-> 0, url |-> <<>>, content |-> "",
     html |-> "", links |-> <<>>, todo |-> <<>>, failed |-> FALSE, res |-> res]

\* SQLiteStorage.__init__ with max_connections = n: the pool is filled and
\* the schema is set up
StoreInitWith(n) ==
    /\ max_connections = n
    /\ closed = FALSE
    /\ pool = [i \in 1..n |-> i]
    /\ active = {}
    /\ pool_lock = None
    /\ conn_open = 1..n
    /\ scraped_content = [u \in Urls |-> <<>>]
    /\ scraped_links = [u \in Urls |-> <<>>]
    /\ stamp = 0
    /\ th = [t \in Threads |-> IdleThread("none")]
    /\ saved = [u \in Urls |-> [set |-> FALSE, content |-> "", html |-> ""]]
    /\ replaced = [u \in Urls |-> [set |-> FALSE, links |-> <<>>]]

StoreInit == \E n \in 1..MaxConnections : StoreInitWith(n)

ContentRow(title, content, html, ts) ==
    [title |-> title, content |-> content, html |-> html,
     scraped_at |-> ts, updated_at |-> ts]

\* an INSERT that leaves a row with the same url in place
InsertKeepingOld(table, url, title, content, html, ts) ==
    [table EXCEPT ![url] = Append(@, ContentRow(title, content, html, ts))]

\* lines 158-162: INSERT OR REPLACE under UNIQUE(url): the rows with the same
\* url are deleted, the new row takes the column defaults (scraped_at) and
\* updated_at
InsertOrReplace(table, url, title, content, html, ts) ==
    [table EXCEPT ![url] = <<ContentRow(title, content, html, ts)>>]

\* a DELETE that removes nothing
DeleteNothing(table, source_url) == table

\* line 184: DELETE FROM scraped_links WHERE source_url = ?
DeleteLinks(table, source_url) == [table EXCEPT ![source_url] = <<>>]

\* lines 196-199: INSERT INTO scraped_links
InsertLink(table, source_url, target_url) ==
    [table EXCEPT ![source_url] =
        Append(@, [target_url |-> target_url, link_text |-> ""])]

\* lines 261-270: the target urls get_links returns for a source
GetLinks(table, source_url) ==
    [i \in 1..Len(table[source_url]) |-> table[source_url][i].target_url]

\* a get that leaves the connection in the queue
PoolKeep(q) == q

\* line 83: Queue.get removes the connection it returns
PoolAfterGet(q) == Tail(q)

Request(op, url, content, html, links) ==
    [op |-> op, url |-> url, content |-> content, html |-> html, links |-> links]

\* save_content calls: every body for one url, one body for the other
ContentRequests ==
    {Request("save_content", UA, c, h, <<>>) : c \in Bodies, h \in Bodies}
    \cup {Request("save_content", UB, "a", "a", <<>>)}

\* save_links and get_links calls: every links list for one source, two lists
\* for the other
LinkRequests ==
    {Request("save_links", UA, "", "", L) : L \in LinkLists}
    \cup {Request("save_links", UB, "", "", L) : L \in {<<>>, <<"x">>}}
    \cup {Request("get_links", u, "", "", <<>>) : u \in StoreUrls}

\* the operation of thread t returns or raises StorageError
Finish(t, res) ==
    /\ th' = [th EXCEPT ![t] = IdleThread(res)]
    /\ replaced' = IF th[t].op = "save_links" /\ res = "ok"
                   THEN [replaced EXCEPT ![th[t].url] = [set |-> TRUE, links |-> th[t].links]]
                   ELSE replaced

\* one call of each operation of the store
AllRequests ==
    {Request("save_content", UA, "a", "b", <<>>),
     Request("save_links", UA, "", "", <<"x">>),
     Request("get_content", UA, "", "", <<>>),
     Request("get_links", UA, "", "", <<>>),
     Request("list_urls", UA, "", "", <<>>),
     Request("get_stats", UA, "", "", <<>>)}

\* an operation that goes on although the store is closed
NeverRaises(is_closed) == FALSE

\* lines 151-152, 178-179, 217-218, 256-257, 287-288, 306-307: every
\* operation raises StorageError at once when the store is closed
RaisesWhenClosed(is_closed) == is_closed

\* an operation of the store is called
StoreCall(t, R) ==
    /\ th[t].pc = "idle"
    /\ \E r \in R :
        IF RaisesWhenClosed(closed)
        THEN th' = [th EXCEPT ![t] = IdleThread("error")]
        ELSE th' = [th EXCEPT ![t] =
                      [op |-> r.op, pc |-> "enter", conn |-> 0, url |-> r.url,
                       content |-> r.content, html |-> r.html, links |-> r.links,
                       todo |-> r.links, failed |-> FALSE, res |-> "none"]]
    /\ UNCHANGED <<max_connections, closed, pool, active, pool_lock, conn_open,
                   scraped_content, scraped_links, stamp, saved, replaced>>
    /\ UNCHANGED <<rlvars, crawlvars, procvars, orchvars, taskvars>>

\* _get_connection, line 78
GetConnEnter(t) ==
    /\ th[t].pc = "enter"
    /\ IF closed
       THEN Finish(t, "error")
       ELSE /\ th' = [th EXCEPT ![t].pc = "get"]
            /\ UNCHANGED replaced
    /\ UNCHANGED <<max_connections, closed, pool, active, pool_lock, conn_open,
                   scraped_content, scraped_links, stamp, saved>>
    /\ UNCHANGED <<rlvars, crawlvars, procvars, orchvars, taskvars>>

\* _get_connection, line 83: a connection is taken from the queue
PoolGet(t) ==
    /\ th[t].pc = "get"
    /\ pool # <<>>
    /\ th' = [th EXCEPT ![t].pc = "add", ![t].conn = Head(pool)]
    /\ pool' = PoolAfterGet(pool)
    /\ UNCHANGED <<max_connections, closed, active, pool_lock, conn_open,
                   scraped_content, scraped_links, stamp, saved, replaced>>
    /\ UNCHANGED <<rlvars, crawlvars, procvars, orchvars, taskvars>>

\* _get_connection, line 83: the queue stayed empty for the timeout, queue.Empty
PoolTimeout(t) ==
    /\ th[t].pc = "get"
    /\ pool = <<>>
    /\ Finish(t, "error")
    /\ UNCHANGED <<max_connections, closed, pool, active, pool_lock, conn_open,
                   scraped_content, scraped_links, stamp, saved>>
    /\ UNCHANGED <<rlvars, crawlvars, procvars, orchvars, taskvars>>

\* _get_connection, lines 84-86: the connection is registered and yielded
ActiveAdd(t) ==
    /\ th[t].pc = "add"
    /\ pool_lock = None
    /\ active' = active \cup {th[t].conn}
    /\ th' = [th EXCEPT ![t].pc = "body"]
    /\ UNCHANGED <<max_connections, closed, pool, pool_lock, conn_open,
                   scraped_content, scraped_links, stamp, saved, replaced>>
    /\ UNCHANGED <<rlvars, crawlvars, procvars, orchvars, taskvars>>

\* an exception that leaves the operation without the finally block of
\* _get_connection
RaiseSkipsFinally(t) == th' = [th EXCEPT ![t] = IdleThread("error")]

\* a statement on a closed connection raises; the finally block runs next
Raise(t) == th' = [th EXCEPT ![t].pc = "discard", ![t].failed = TRUE]

\* save_content, lines 158-162
ExecUpsert(t) ==
    /\ th[t].pc = "body"
    /\ th[t].op = "save_content"
    /\ IF th[t].conn \in conn_open
       THEN /\ scraped_content' = InsertOrReplace(scraped_content, th[t].url, None,
                                                th[t].content, th[t].html, stamp)
            /\ saved' = [saved EXCEPT ![th[t].url] =
                            [set |-> TRUE, content |-> th[t].content, html |-> th[t].html]]
            /\ th' = [th EXCEPT ![t].pc = "discard"]
       ELSE /\ Raise(t)
            /\ UNCHANGED <<scraped_content, saved>>
    /\ UNCHANGED <<max_connections, closed, pool, active, pool_lock, conn_open,
                   scraped_links, stamp, replaced>>
    /\ UNCHANGED <<rlvars, crawlvars, procvars, orchvars, taskvars>>

\* save_links, line 184
ExecDelete(t) ==
    /\ th[t].pc = "body"
    /\ th[t].op = "save_links"
    /\ IF th[t].conn \in conn_open
       THEN /\ scraped_links' = DeleteLinks(scraped_links, th[t].url)
            /\ th' = [th EXCEPT ![t].pc = IF th[t].todo = <<>> THEN "discard" ELSE "insert"]
       ELSE /\ Raise(t)
            /\ UNCHANGED scraped_links
    /\ UNCHANGED <<max_connections, closed, pool, active, pool_lock, conn_open,
                   scraped_content, stamp, saved, replaced>>
    /\ UNCHANGED <<rlvars, crawlvars, procvars, orchvars, taskvars>>

\* save_links, lines 187-199: one turn of the loop over links
ExecInsert(t) ==
    /\ th[t].pc = "insert"
    /\ LET target_url == Head(th[t].todo)
           rest == Tail(th[t].todo)
           next_pc == IF rest = <<>> THEN "discard" ELSE "insert"
       IN IF target_url = ""
          THEN /\ th' = [th EXCEPT ![t].todo = rest, ![t].pc = next_pc]
               /\ UNCHANGED scraped_links
          ELSE IF th[t].conn \in conn_open
          THEN /\ scraped_links' = InsertLink(scraped_links, th[t].url, target_url)
               /\ th' = [th EXCEPT ![t].todo = rest, ![t].pc = next_pc]
          ELSE /\ Raise(t)
               /\ UNCHANGED scraped_links
    /\ UNCHANGED <<max_connections, closed, pool, active, pool_lock, conn_open,
                   scraped_content, stamp, saved, replaced>>
    /\ UNCHANGED <<rlvars, crawlvars, procvars, orchvars, taskvars>>

\* a statement raises on an open connection (sqlite3.Error: database locked,
\* disk full): the except of lines 166-168, 203-205, 242-244, 270-272,
\* 300-302 or 335-337 turns it into StorageError after the finally block of
\* _get_connection has run
ExecFails(t) ==
    /\ th[t].pc \in {"body", "insert"}
    /\ th[t].conn \in conn_open
    /\ Raise(t)
    /\ UNCHANGED <<max_connections, closed, pool, active, pool_lock, conn_open,
                   scraped_content, scraped_links, stamp, saved, replaced>>
    /\ UNCHANGED <<rlvars, crawlvars, procvars, orchvars, taskvars>>

\* the operations that only read: lines 207, 246, 276, 304
ReadOps == {"get_content", "get_links", "list_urls", "get_stats"}

\* get_content, get_links, list_urls, get_stats: the SELECT statements of
\* lines 222-227, 261-265, 292-296 and 311-325
ExecSelect(t) ==
    /\ th[t].pc = "body"
    /\ th[t].op \in ReadOps
    /\ IF th[t].conn \in conn_open
       THEN th' = [th EXCEPT ![t].pc = "discard"]
       ELSE Raise(t)
    /\ UNCHANGED <<max_connections, closed, pool, active, pool_lock, conn_open,
                   scraped_content, scraped_links, stamp, saved, replaced>>
    /\ UNCHANGED <<rlvars, crawlvars, procvars, orchvars, taskvars>>

\* _get_connection, lines 89-90
ActiveDiscard(t) ==
    /\ th[t].pc = "discard"
    /\ pool_lock = None
    /\ active' = active \ {th[t].conn}
    /\ th' = [th EXCEPT ![t].pc = "rel"]
    /\ UNCHANGED <<max_connections, closed, pool, pool_lock, conn_open,
                   scraped_content, scraped_links, stamp, saved, replaced>>
    /\ UNCHANGED <<rlvars, crawlvars, procvars, orchvars, taskvars>>

\* _get_connection, lines 91 and 96-97: _closed is read; a closed store closes
\* the connection
ReleaseCheck(t) ==
    /\ th[t].pc = "rel"
    /\ IF closed
       THEN /\ conn_open' = conn_open \ {th[t].conn}
            /\ Finish(t, IF th[t].failed THEN "error" ELSE "ok")
       ELSE /\ th' = [th EXCEPT ![t].pc = "put"]
            /\ UNCHANGED <<conn_open, replaced>>
    /\ UNCHANGED <<max_connections, closed, pool, active, pool_lock,
                   scraped_content, scraped_links, stamp, saved>>
    /\ UNCHANGED <<rlvars, crawlvars, procvars, orchvars, taskvars>>

\* a release that drops the connection instead of putting it back
PoolPutLeaks(t) ==
    /\ th[t].pc = "put"
    /\ Finish(t, IF th[t].failed THEN "error" ELSE "ok")
    /\ UNCHANGED <<max_connections, closed, pool, active, pool_lock, conn_open,
                   scraped_content, scraped_links, stamp, saved>>
    /\ UNCHANGED <<rlvars, crawlvars, procvars, orchvars, taskvars>>

\* _get_connection, lines 92-95: the connection goes back to the queue
PoolPut(t) ==
    /\ th[t].pc = "put"
    /\ IF Len(pool) < max_connections
       THEN /\ pool' = Append(pool, th[t].conn)
            /\ UNCHANGED conn_open
       ELSE /\ conn_open' = conn_open \ {th[t].conn}
            /\ UNCHANGED pool
    /\ Finish(t, IF th[t].failed THEN "error" ELSE "ok")
    /\ UNCHANGED <<max_connections, closed, active, pool_lock,
                   scraped_content, scraped_links, stamp, saved>>
    /\ UNCHANGED <<rlvars, crawlvars, procvars, orchvars, taskvars>>

\* close(), lines 341-345
CloseCall(t) ==
    /\ th[t].pc = "idle"
    /\ pool_lock = None
    /\ IF closed
       THEN /\ th' = [th EXCEPT ![t] = IdleThread("ok")]
            /\ UNCHANGED <<closed, pool_lock>>
       ELSE /\ closed' = TRUE
            /\ pool_lock' = t
            /\ th' = [th EXCEPT ![t] = [IdleThread("none") EXCEPT !.op = "close",
                                                                !.pc = "drain"]]
    /\ UNCHANGED <<max_connections, pool, active, conn_open,
                   scraped_content, scraped_links, stamp, saved, replaced>>
    /\ UNCHANGED <<rlvars, crawlvars, procvars, orchvars, taskvars>>

\* close(), lines 348-351: one pooled connection is taken and closed
CloseDrain(t) ==
    /\ th[t].pc = "drain"
    /\ pool # <<>>
    /\ pool' = Tail(pool)
    /\ conn_open' = conn_open \ {Head(pool)}
    /\ UNCHANGED <<max_connections, closed, active, pool_lock,
                   scraped_content, scraped_links, stamp, th, saved, replaced>>
    /\ UNCHANGED <<rlvars, crawlvars, procvars, orchvars, taskvars>>

\* close(), lines 352-353: queue.Empty ends the loop
CloseDrainEnd(t) ==
    /\ th[t].pc = "drain"
    /\ pool = <<>>
    /\ th' = [th EXCEPT ![t].pc = "actives"]
    /\ UNCHANGED <<max_connections, closed, pool, active, pool_lock, conn_open,
                   scraped_content, scraped_links, stamp, saved, replaced>>
    /\ UNCHANGED <<rlvars, crawlvars, procvars, orchvars, taskvars>>

\* close(), lines 358-364: the connections in use are closed, the lock released
CloseActives(t) ==
    /\ th[t].pc = "actives"
    /\ conn_open' = conn_open \ active
    /\ active' = {}
    /\ pool_lock' = None
    /\ Finish(t, "ok")
    /\ UNCHANGED <<max_connections, closed, pool,
                   scraped_content, scraped_links, stamp, saved>>
    /\ UNCHANGED <<rlvars, crawlvars, procvars, orchvars, taskvars>>

\* CURRENT_TIMESTAMP advances
StoreTick ==
    /\ stamp < MaxStamp
    /\ stamp' = stamp + 1
    /\ UNCHANGED <<max_connections, closed, pool, active, pool_lock, conn_open,
                   scraped_content, scraped_links, th, saved, replaced>>
    /\ UNCHANGED <<rlvars, crawlvars, procvars, orchvars, taskvars>>

\* threads call save_content and close() concurrently; the calls fall within
\* one timestamp
StoreNext ==
    \/ \E t \in Threads : StoreCall(t, ContentRequests)
    \/ \E t \in Threads : CloseCall(t)
    \/ \E t \in Threads : PoolTimeout(t)
    \/ \E t \in Threads : GetConnEnter(t)
    \/ \E t \in Threads : PoolGet(t)
    \/ \E t \in Threads : ActiveAdd(t)
    \/ \E t \in Threads : ExecUpsert(t)
    \/ \E t \in Threads : ActiveDiscard(t)
    \/ \E t \in Threads : ReleaseCheck(t)
    \/ \E t \in Threads : PoolPut(t)
    \/ \E t \in Threads : CloseDrain(t)
    \/ \E t \in Threads : CloseDrainEnd(t)
    \/ \E t \in Threads : CloseActives(t)

\* threads call every operation of the store and close() concurrently
StoreOpsNext ==
    \/ \E t \in Threads : StoreCall(t, AllRequests)
    \/ \E t \in Threads : CloseCall(t)
    \/ \E t \in Threads : PoolTimeout(t)
    \/ \E t \in Threads : GetConnEnter(t)
    \/ \E t \in Threads : PoolGet(t)
    \/ \E t \in Threads : ActiveAdd(t)
    \/ \E t \in Threads : ExecUpsert(t)
    \/ \E t \in Threads : ExecDelete(t)
    \/ \E t \in Threads : ExecInsert(t)
    \/ \E t \in Threads : ExecSelect(t)
    \/ \E t \in Threads : ActiveDiscard(t)
    \/ \E t \in Threads : ReleaseCheck(t)
    \/ \E t \in Threads : PoolPut(t)
    \/ \E t \in Threads : CloseDrain(t)
    \/ \E t \in Threads : CloseDrainEnd(t)
    \/ \E t \in Threads : CloseActives(t)

\* the worker of each thread saves a URL of its own
UrlOf(t) == IF t = "w1" THEN UA ELSE UB

DistinctRequests(t) ==
    {Request("save_content", UrlOf(t), c, "a", <<>>) : c \in Bodies}

\* the steps a thread takes inside a store operation once it is called
StoreSteps(t) ==
    \/ PoolTimeout(t)
    \/ GetConnEnter(t)
    \/ PoolGet(t)
    \/ ActiveAdd(t)
    \/ ExecUpsert(t)
    \/ ActiveDiscard(t)
    \/ ReleaseCheck(t)
    \/ PoolPut(t)

\* threads call save_content concurrently, each for its own URL, on a store
\* that stays open
StoreDistinctNext ==
    \/ \E t \in Threads : StoreCall(t, DistinctRequests(t))
    \/ \E t \in Threads : PoolTimeout(t)
    \/ \E t \in Threads : GetConnEnter(t)
    \/ \E t \in Threads : PoolGet(t)
    \/ \E t \in Threads : ActiveAdd(t)
    \/ \E t \in Threads : ExecUpsert(t)
    \/ \E t \in Threads : ActiveDiscard(t)
    \/ \E t \in Threads : ReleaseCheck(t)
    \/ \E t \in Threads : PoolPut(t)

\* two lists for one source, and a read of its edges
SharedSourceRequests ==
    {Request("save_links", UA, "", "", <<"x", "y">>),
     Request("save_links", UA, "", "", <<"y">>),
     Request("get_links", UA, "", "", <<>>)}

\* threads call save_links and get_links for one source concurrently on a
\* store that stays open
StoreLinksNext ==
    \/ \E t \in Threads : StoreCall(t, SharedSourceRequests)
    \/ \E t \in Threads : PoolTimeout(t)
    \/ \E t \in Threads : GetConnEnter(t)
    \/ \E t \in Threads : PoolGet(t)
    \/ \E t \in Threads : ActiveAdd(t)
    \/ \E t \in Threads : ExecDelete(t)
    \/ \E t \in Threads : ExecInsert(t)
    \/ \E t \in Threads : ExecSelect(t)
    \/ \E t \in Threads : ActiveDiscard(t)
    \/ \E t \in Threads : ReleaseCheck(t)
    \/ \E t \in Threads : PoolPut(t)

\* threads call every operation on a store that stays open; a statement may
\* raise
StoreOpenNext ==
    \/ \E t \in Threads : StoreCall(t, AllRequests)
    \/ \E t \in Threads : PoolTimeout(t)
    \/ \E t \in Threads : GetConnEnter(t)
    \/ \E t \in Threads : PoolGet(t)
    \/ \E t \in Threads : ActiveAdd(t)
    \/ \E t \in Threads : ExecUpsert(t)
    \/ \E t \in Threads : ExecDelete(t)
    \/ \E t \in Threads : ExecInsert(t)
    \/ \E t \in Threads : ExecSelect(t)
    \/ \E t \in Threads : ExecFails(t)
    \/ \E t \in Threads : ActiveDiscard(t)
    \/ \E t \in Threads : ReleaseCheck(t)
    \/ \E t \in Threads : PoolPut(t)

\* threads call save_content on a store that stays open while the clock of
\* CURRENT_TIMESTAMP goes on
StoreClockNext ==
    \/ \E t \in Threads : StoreCall(t, ContentRequests)
    \/ StoreTick
    \/ \E t \in Threads : PoolTimeout(t)
    \/ \E t \in Threads : GetConnEnter(t)
    \/ \E t \in Threads : PoolGet(t)
    \/ \E t \in Threads : ActiveAdd(t)
    \/ \E t \in Threads : ExecUpsert(t)
    \/ \E t \in Threads : ActiveDiscard(t)
    \/ \E t \in Threads : ReleaseCheck(t)
    \/ \E t \in Threads : PoolPut(t)

\* one thread calls save_links and get_links while the other calls close()
StoreFailNext ==
    \/ StoreCall("w1", LinkRequests)
    \/ CloseCall("w2")
    \/ PoolTimeout("w1")
    \/ GetConnEnter("w1")
    \/ PoolGet("w1")
    \/ ActiveAdd("w1")
    \/ ExecDelete("w1")
    \/ ExecInsert("w1")
    \/ ExecSelect("w1")
    \/ ActiveDiscard("w1")
    \/ ReleaseCheck("w1")
    \/ PoolPut("w1")
    \/ CloseDrain("w2")
    \/ CloseDrainEnd("w2")
    \/ CloseActives("w2")

\* one caller of save_links, get_links and close(): an operation is called
\* when the one before it has returned
StoreSeqNext ==
    \/ StoreCall("w1", LinkRequests)
    \/ CloseCall("w1")
    \/ GetConnEnter("w1")
    \/ PoolGet("w1")
    \/ ActiveAdd("w1")
    \/ ExecDelete("w1")
    \/ ExecInsert("w1")
    \/ ExecSelect("w1")
    \/ ActiveDiscard("w1")
    \/ ReleaseCheck("w1")
    \/ PoolPut("w1")
    \/ CloseDrain("w1")
    \/ CloseDrainEnd("w1")
    \/ CloseActives("w1")

(***************************************************************************)
(* Claims on SQLiteStorage                                                 *)
(***************************************************************************)
\* no operation is in flight
Quiet == \A t \in Threads : th[t].pc = "idle"

\* thread t holds a connection it took from the pool and has not returned
Held(t) == th[t].conn # 0

\* the connections waiting in the queue
Pooled == {pool[i] : i \in 1..Len(pool)}

\* the link targets save_links inserts: line 195 skips an empty target
NonEmptyTargets(links) ==
    LET Keep(x) == x # "" IN SelectSeq(links, Keep)

\* close() has returned: the store is closed and no close() is running
CloseReturned == closed /\ \A t \in Threads : th[t].op # "close"

\* C24: a call made after close() has returned ends at once, as an operation
\* that raises StorageError or as a close() that returns, and changes neither
\* the tables nor the connections
C24_ClosedStoreRejects ==
    [][\A t \in Threads :
          CloseReturned /\ th[t].pc = "idle" /\ th'[t] # th[t] =>
              /\ th'[t].pc = "idle"
              /\ th'[t].res \in {"error", "ok"}
              /\ scraped_content' = scraped_content
              /\ scraped_links' = scraped_links
              /\ <<closed, pool, active, conn_open>>' = <<closed, pool, active, conn_open>>]_vars

\* after close() has returned, an operation has raised and another close()
\* has returned
C24_Witness ==
    /\ CloseReturned
    /\ Quiet
    /\ th["w1"].res = "error"
    /\ th["w2"].res = "ok"
    /\ scraped_content[UA] # <<>>

C31_SaveLinksAtomic ==
    (Quiet \/ \E t \in Threads : th[t].op = "get_links" /\ th[t].pc = "body") =>
        \/ GetLinks(scraped_links, UA) \in {<<"x", "y">>, <<"y">>}
        \/ GetLinks(scraped_links, UA) = <<>> /\ ~replaced[UA].set

\* C37: while the store is open, the connections in the pool and those
\* checked out are distinct open connections and together never number more
\* than max_connections, and whenever no operation is in flight the pool
\* holds exactly max_connections connections, also after an operation that
\* raised
C37_ConnectionsConserved ==
    ~closed =>
        /\ Len(pool) + Cardinality({t \in Threads : Held(t)}) <= max_connections
        /\ Cardinality(Pooled \cup {th[t].conn : t \in {s \in Threads : Held(s)}}) =
               Len(pool) + Cardinality({t \in Threads : Held(t)})
        /\ Pooled \subseteq conn_open
        /\ Quiet => Len(pool) = max_connections

\* both connections are back in the pool after an operation that raised
\* although a connection was free for it
C37_Witness ==
    /\ ~closed
    /\ Quiet
    /\ max_connections = Cardinality(Threads)
    /\ \E t \in Threads : th[t].res = "error"
    /\ Len(pool) = max_connections

\* the scraped_at values of the page records
ScrapedAts(table) ==
    UNION {{table[u][i].scraped_at : i \in 1..Len(table[u])} : u \in Urls}

\* get_stats, lines 321-324: MIN(scraped_at) over the page records of a table
\* that has one
FirstScraped(table) ==
    CHOOSE m \in ScrapedAts(table) : \A x \in ScrapedAts(table) : m <= x

\* C38: a save_content for a url that has a record leaves the record's
\* scraped_at as it was, and the first_scraped of get_stats never moves
\* forward
C38_FirstScrapedKept ==
    [][/\ \A u \in Urls :
             scraped_content[u] # <<>> /\ scraped_content'[u] # <<>> =>
                 scraped_content'[u][1].scraped_at = scraped_content[u][1].scraped_at
       /\ ScrapedAts(scraped_content) # {} =>
             FirstScraped(scraped_content') <= FirstScraped(scraped_content)]_vars

\* C32: once close() has returned and no operation is in flight, every
\* connection of the store is closed and the pool queue is empty.
C32_ClosedStoreHoldsNothing ==
    CloseReturned /\ Quiet => pool = <<>> /\ conn_open = {}

\* C34: when a save_links call of the one writer ends with StorageError, the
\* edges stored for its source are those of the last save_links that
\* returned (none when there was no such call): the failed call left the
\* stored set as it was.
C34_FailedSaveKeepsEdges ==
    [][\A t \in Threads :
          th[t].op = "save_links" /\ th'[t].pc = "idle" /\ th'[t].res = "error" =>
              GetLinks(scraped_links', th[t].url) =
                  IF replaced[th[t].url].set
                  THEN NonEmptyTargets(replaced[th[t].url].links)
                  ELSE <<>>]_vars

\* C6: after every save_content call the scraped_content table holds exactly
\* one row per distinct url saved so far, and that row carries the content and
\* html of the most recent save_content call for the url.
C6_OneRowPerUrl ==
    \A u \in Urls :
        IF ~saved[u].set
        THEN scraped_content[u] = <<>>
        ELSE /\ Len(scraped_content[u]) = 1
             /\ scraped_content[u][1].content = saved[u].content
             /\ scraped_content[u][1].html = saved[u].html

\* C6 witness: two save_content calls for the same url with different bodies
\* have both executed their statement, and a second url has been saved too.
C6_Witness ==
    /\ th["w1"].op = "save_content" /\ th["w1"].pc = "discard" /\ ~th["w1"].failed
    /\ th["w2"].op = "save_content" /\ th["w2"].pc = "discard" /\ ~th["w2"].failed
    /\ th["w1"].url = UA /\ th["w2"].url = UA
    /\ th["w1"].content # th["w2"].content
    /\ Len(scraped_content[UA]) = 1
    /\ Len(scraped_content[UB]) = 1

\* C7: after save_links(u, L1) followed by save_links(u, L2), get_links(u)
\* returns exactly the edges of L2 that have a non-empty target, and none of
\* L1's edges that are not in L2.
C7_FullReplace ==
    Quiet =>
        \A u \in StoreUrls :
            replaced[u].set =>
                GetLinks(scraped_links, u) = NonEmptyTargets(replaced[u].links)

\* C7 witness: save_links(u, <<x, x>>) has returned and a following
\* save_links(u, <<y, "">>) has run its statements: only y is left for u.
C7_Witness ==
    /\ replaced[UA].set /\ replaced[UA].links = <<"x", "x">>
    /\ th["w1"].op = "save_links" /\ th["w1"].url = UA
    /\ th["w1"].links = <<"y", "">> /\ th["w1"].pc = "discard" /\ ~th["w1"].failed
    /\ GetLinks(scraped_links, UA) = <<"y">>

\* C8: a connection yielded by _get_connection is held by exactly one
\* operation in flight until that operation returns it, and the number of
\* connections checked out never exceeds max_connections.
C8_ExclusiveConnections ==
    /\ \A t1, t2 \in Threads :
            (t1 # t2 /\ Held(t1) /\ Held(t2)) => th[t1].conn # th[t2].conn
    /\ \A t \in Threads : Held(t) => th[t].conn \notin Pooled
    /\ Cardinality({t \in Threads : Held(t)}) <= max_connections

\* C8 witness: every connection of a pool of two is checked out, each by its
\* own operation.
C8_Witness ==
    /\ max_connections = 2
    /\ pool = <<>>
    /\ \A t \in Threads : th[t].pc = "body" /\ Held(t)

\* C8 second witness state: a pool of one connection is checked out while
\* another operation waits for it.
C8_Contended ==
    /\ max_connections = 1
    /\ \E t1, t2 \in Threads : th[t1].pc = "body" /\ th[t2].pc = "get"

(***************************************************************************)
(* UnifiedScraper: operations                                              *)
(***************************************************************************)
IdleCrawl ==
    [phase |-> "idle", mode |-> "none", pattern |-> <<>>, pending |-> {},
     batch |-> {}, success |-> FALSE, pages_scraped |-> 0, pages_failed |-> 0]

IdleCycle == [pc |-> "none", html |-> NoUrl, links |-> {}, result |-> "none"]

\* what a page shows: its html, the text extracted from it, its title
Html(p) == <<"html", p>>
Text(p) == <<"text", p>>
Title(p) == <<"title", p>>

\* UnifiedScraper.__init__ with concurrent_requests = c, before any scrape()
CrawlInitWith(c, S) ==
    /\ concurrent_requests = c
    /\ semaphore = c
    /\ scraped_urls = {}
    /\ failed_urls = {}
    /\ page = NoUrl
    /\ site = S
    /\ crawl = [k \in Crawls |-> IdleCrawl]
    /\ cyc = [k \in Crawls |-> [u \in Urls |-> IdleCycle]]

\* every page may serve any set of links
AnySite == [u \in Urls |-> SUBSET Urls]

\* the root page links to the two other pages, which link to nothing
StarSite == [u \in Urls |-> IF u = UA THEN {Urls \ {u}} ELSE {{}}]

\* the links of the three-page site: A links to B and C, B links back to A
FixtureLinks(u) ==
    IF u = UA THEN {UB, UC} ELSE IF u = UB THEN {UA} ELSE {}

\* the three-page site serves the same links at every fetch
FixtureSite == [u \in Urls |-> {FixtureLinks(u)}]

\* https://ex.com.evil.org/x: another host whose text begins with the host
\* of the seed
UE == <<"s", ".e", "/", "x">>

\* https://other.org/d: another host
UF == <<"t", "/", "d">>

\* the links a fetched page may carry: pages of the site and of other hosts
LinkCandidates == Urls \cup {UE, UF}

\* str.startswith
StartsWith(str, prefix) ==
    /\ Len(prefix) <= Len(str)
    /\ SubSeq(str, 1, Len(prefix)) = prefix

\* '*' in pattern
HasStar(pattern) == \E i \in 1..Len(pattern) : pattern[i] = "*"

\* the text before the first token tok, the whole text when there is none
Before(str, tok) ==
    IF \E i \in 1..Len(str) : str[i] = tok
    THEN LET i == CHOOSE j \in 1..Len(str) :
                    str[j] = tok /\ \A m \in 1..(j - 1) : str[m] # tok
         IN SubSeq(str, 1, i - 1)
    ELSE str

\* a strip that removes nothing
KeepSlash(str) == str

RECURSIVE RStripSlash(_)
\* str.rstrip('/')
RStripSlash(str) ==
    IF str # <<>> /\ str[Len(str)] = "/"
    THEN RStripSlash(SubSeq(str, 1, Len(str) - 1))
    ELSE str

\* lines 256-257: scheme://netloc of a url
Domain(url) == Before(url, "/")

\* a match that accepts every url
MatchesAnything(url, pattern) == TRUE

\* lines 396-403: _matches_pattern
MatchesPattern(url, pattern) ==
    IF ~HasStar(pattern)
    THEN StartsWith(url, pattern)
    ELSE StartsWith(url, Before(pattern, "*"))

\* lines 376-387: the filter _scrape_page_with_links applies to the links
FilterLinks(links, base_pattern) ==
    IF HasStar(base_pattern)
    THEN {l \in links : MatchesPattern(l, base_pattern)}
    ELSE {l \in links : StartsWith(l, base_pattern)}

\* lines 246 and 303: the links of a result that enter the frontier
NewUrls(mode, links, pattern, visited) ==
    IF mode = "full_site"
    THEN {l \in links : StartsWith(l, pattern) /\ l \notin visited}
    ELSE {l \in links : MatchesPattern(l, pattern) /\ l \notin visited}

RECURSIVE SetToSeq(_)
\* the links of a page in the order of the page
SetToSeq(S) ==
    IF S = {} THEN <<>>
    ELSE LET x == CHOOSE y \in S : TRUE IN <<x>> \o SetToSeq(S \ {x})

RECURSIVE InsertAll(_, _, _)
\* save_links, lines 187-199, run to its end
InsertAll(table, source_url, links) ==
    IF links = <<>> THEN table
    ELSE InsertAll(InsertLink(table, source_url, Head(links)), source_url, Tail(links))

\* save_links(url, links) called from the event loop: no other task runs
\* between its statements
SaveLinks(table, source_url, links) ==
    InsertAll(DeleteLinks(table, source_url), source_url, SetToSeq(links))

\* a semaphore that never blocks
SemAlwaysFree(value) == TRUE

\* asyncio.Semaphore.acquire does not wait while the value is positive
SemFree(value) == value > 0

\* a visited check that lets every url through
NeverScraped(u, visited) == FALSE

\* line 318: url in self.scraped_urls
AlreadyScraped(u, visited) == u \in visited

\* a pop that leaves the url in the set
PendingKept(pending, b) == pending

\* lines 217-219 and 266-268: the urls popped into the batch leave the frontier
PendingAfterPop(pending, b) == pending \ b

\* every mode extracts and saves links
FollowsAlways(mode) == TRUE

\* lines 184 and 222, 271: _scrape_single_url calls _scrape_page, the crawl
\* loops call _scrape_page_with_links
FollowsLinks(mode) == mode # "single"

\* the modes and seeds scrape() is called with
ScrapeInputs ==
    {<<"single", UB>>, <<"full_site", UA>>, <<"docs", UB>>, <<"archive", UB>>,
     <<"wildcard", <<"s", "/", "*">>>>, <<"wildcard", <<"s", "/", "d", "/", "*">>>>}

\* the single-page call made while another scrape() is running
SingleInputs == {<<"single", UB>>}

\* lines 139-146: the modes scrape() knows after the detection of "auto"
Modes == {"single", "wildcard", "full_site", "docs"}

\* an error summary without the page counts
ErrorSummaryBare(mode) == [IdleCrawl EXCEPT !.phase = "done", !.mode = mode]

\* lines 169-178: the summary scrape() returns when an exception reaches it
ErrorSummary(mode) ==
    [IdleCrawl EXCEPT !.phase = "done", !.mode = mode,
                      !.pages_scraped = Cardinality(scraped_urls),
                      !.pages_failed = Cardinality(failed_urls)]

\* scrape(), lines 124-148: the browser is initialized, or initialize() or
\* an unknown mode raises; then the start of the chosen strategy
StartScrape(k, Inputs) ==
    /\ crawl[k].phase = "idle"
    /\ \E in \in Inputs : \E initialized \in BOOLEAN :
        LET mode == in[1]
            url == in[2]
            url_pattern == IF mode = "docs" /\ ~HasStar(url)
                           THEN RStripSlash(url) \o <<"/", "*">>
                           ELSE url
        IN IF ~initialized \/ mode \notin Modes
           THEN /\ crawl' = [crawl EXCEPT ![k] = ErrorSummary(mode)]
                /\ UNCHANGED cyc
           ELSE IF mode = "single"
           THEN /\ crawl' = [crawl EXCEPT ![k] =
                        [IdleCrawl EXCEPT !.phase = "gather", !.mode = mode,
                                          !.batch = {url}]]
                /\ cyc' = [cyc EXCEPT ![k][url].pc = "start"]
           ELSE IF mode = "full_site"
           THEN /\ crawl' = [crawl EXCEPT ![k] =
                        [IdleCrawl EXCEPT !.phase = "loop", !.mode = mode,
                                          !.pattern = Domain(url),
                                          !.pending = {url}]]
                /\ UNCHANGED cyc
           ELSE /\ crawl' = [crawl EXCEPT ![k] =
                        [IdleCrawl EXCEPT !.phase = "loop", !.mode = mode,
                                          !.pattern = url_pattern,
                                          !.pending = {RStripSlash(Before(url_pattern, "*"))}]]
                /\ UNCHANGED cyc
    /\ UNCHANGED <<concurrent_requests, semaphore, scraped_urls, failed_urls, page, site>>
    /\ UNCHANGED <<scraped_content, scraped_links>>
    /\ UNCHANGED <<procvars, orchvars, taskvars, rlvars, max_connections, closed, pool, active, pool_lock, conn_open,
                   stamp, th, saved, replaced>>

\* a loop test that looks at the frontier only
FrontierOnly(k) == crawl[k].pending # {}

\* the while condition of lines 214 and 263
LoopGoesOn(k) ==
    /\ crawl[k].pending # {}
    /\ crawl[k].mode = "full_site" => Cardinality(scraped_urls) < PageCeiling

\* lines 216-223 and 265-272: a batch is popped and its tasks are gathered
NextBatch(k) ==
    /\ crawl[k].phase = "loop"
    /\ LoopGoesOn(k)
    /\ \E b \in SUBSET crawl[k].pending :
        /\ Cardinality(b) = Min(concurrent_requests, Cardinality(crawl[k].pending))
        /\ crawl' = [crawl EXCEPT ![k].phase = "gather", ![k].batch = b,
                                  ![k].pending = PendingAfterPop(crawl[k].pending, b)]
        /\ cyc' = [cyc EXCEPT ![k] =
                      [u \in Urls |-> IF u \in b THEN [IdleCycle EXCEPT !.pc = "start"]
                                      ELSE IdleCycle]]
    /\ UNCHANGED <<concurrent_requests, semaphore, scraped_urls, failed_urls, page, site>>
    /\ UNCHANGED <<scraped_content, scraped_links>>
    /\ UNCHANGED <<procvars, orchvars, taskvars, rlvars, max_connections, closed, pool, active, pool_lock, conn_open,
                   stamp, th, saved, replaced>>

\* lines 214/263 and 249/306: the loop ends and the strategy returns
LoopExit(k) ==
    /\ crawl[k].phase = "loop"
    /\ ~LoopGoesOn(k)
    /\ crawl' = [crawl EXCEPT ![k].phase = "finish"]
    /\ UNCHANGED <<concurrent_requests, semaphore, scraped_urls, failed_urls, page, site, cyc>>
    /\ UNCHANGED <<scraped_content, scraped_links>>
    /\ UNCHANGED <<procvars, orchvars, taskvars, rlvars, max_connections, closed, pool, active, pool_lock, conn_open,
                   stamp, th, saved, replaced>>

\* _scrape_page, lines 318-321: the visited check and the semaphore
CycleStart(k, u) ==
    /\ cyc[k][u].pc = "start"
    /\ IF AlreadyScraped(u, scraped_urls)
       THEN /\ cyc' = [cyc EXCEPT ![k][u].pc = "done", ![k][u].result = "None"]
            /\ UNCHANGED semaphore
       ELSE IF SemFree(semaphore)
       THEN /\ cyc' = [cyc EXCEPT ![k][u].pc = "rate"]
            /\ semaphore' = semaphore - 1
       ELSE /\ cyc' = [cyc EXCEPT ![k][u].pc = "wait_sem"]
            /\ UNCHANGED semaphore
    /\ UNCHANGED <<concurrent_requests, scraped_urls, failed_urls, page, site, crawl>>
    /\ UNCHANGED <<scraped_content, scraped_links>>
    /\ UNCHANGED <<procvars, orchvars, taskvars, rlvars, max_connections, closed, pool, active, pool_lock, conn_open,
                   stamp, th, saved, replaced>>

\* _scrape_page, line 321: a task waiting for the semaphore gets it
SemWake(k, u) ==
    /\ cyc[k][u].pc = "wait_sem"
    /\ SemFree(semaphore)
    /\ cyc' = [cyc EXCEPT ![k][u].pc = "rate"]
    /\ semaphore' = semaphore - 1
    /\ UNCHANGED <<concurrent_requests, scraped_urls, failed_urls, page, site, crawl>>
    /\ UNCHANGED <<scraped_content, scraped_links>>
    /\ UNCHANGED <<procvars, orchvars, taskvars, rlvars, max_connections, closed, pool, active, pool_lock, conn_open,
                   stamp, th, saved, replaced>>

\* _scrape_page, line 324: rate_limiter.acquire() returns
RateAcquired(k, u) ==
    /\ cyc[k][u].pc = "rate"
    /\ cyc' = [cyc EXCEPT ![k][u].pc = "nav"]
    /\ UNCHANGED <<concurrent_requests, semaphore, scraped_urls, failed_urls, page, site, crawl>>
    /\ UNCHANGED <<scraped_content, scraped_links>>
    /\ UNCHANGED <<procvars, orchvars, taskvars, rlvars, max_connections, closed, pool, active, pool_lock, conn_open,
                   stamp, th, saved, replaced>>

\* a failure that releases the semaphore but is not recorded
CycleFailsSilently(k, u) ==
    /\ failed_urls' = failed_urls
    /\ semaphore' = semaphore + 1
    /\ cyc' = [cyc EXCEPT ![k][u] = [IdleCycle EXCEPT !.pc = "done", !.result = "None"]]

\* _scrape_page, lines 359-362 and the exit of the async with
CycleFails(k, u) ==
    /\ failed_urls' = failed_urls \cup {u}
    /\ semaphore' = semaphore + 1
    /\ cyc' = [cyc EXCEPT ![k][u] = [IdleCycle EXCEPT !.pc = "done", !.result = "None"]]

\* the document a server sends with a status of 400 or more for url u
ErrorPage(u) == <<"!">> \o u

\* the links a document carries at a fetch; an error document carries none
LinksOn(S, p) == IF p \in DOMAIN S THEN S[p] ELSE {{}}

\* _scrape_page, line 328: browser.navigate(url) loads the page and returns,
\* or raises, or (PlaywrightBrowser, CamoufoxBrowser, StaticBrowser) loads
\* the document of a response with status >= 400 and returns success: False,
\* which line 328 drops; StealthBrowser raises for such a response
Navigate(k, u) ==
    /\ cyc[k][u].pc = "nav"
    /\ \E out \in {"loaded", "status", "raised"} :
        IF out = "loaded"
        THEN /\ page' = u
             /\ cyc' = [cyc EXCEPT ![k][u].pc = "content"]
             /\ UNCHANGED <<semaphore, failed_urls>>
        ELSE IF out = "status"
        THEN /\ page' = ErrorPage(u)
             /\ cyc' = [cyc EXCEPT ![k][u].pc = "content"]
             /\ UNCHANGED <<semaphore, failed_urls>>
        ELSE /\ \E p \in {page, u, ErrorPage(u)} : page' = p
             /\ CycleFails(k, u)
    /\ UNCHANGED <<concurrent_requests, scraped_urls, site, crawl>>
    /\ UNCHANGED <<scraped_content, scraped_links>>
    /\ UNCHANGED <<procvars, orchvars, taskvars, rlvars, max_connections, closed, pool, active, pool_lock, conn_open,
                   stamp, th, saved, replaced>>

\* _scrape_page, lines 331-335: the content of the loaded page is read and
\* extracted, or one of the two raises
GetContent(k, u) ==
    /\ cyc[k][u].pc = "content"
    /\ \E ok \in BOOLEAN :
        IF ok /\ page # NoUrl
        THEN /\ \E L \in LinksOn(site, page) :
                    cyc' = [cyc EXCEPT ![k][u].pc = "title", ![k][u].html = page,
                                       ![k][u].links = L]
             /\ last_extracted_html' = Html(page)
             /\ UNCHANGED <<semaphore, failed_urls>>
        ELSE /\ CycleFails(k, u)
             /\ UNCHANGED last_extracted_html
    /\ UNCHANGED <<concurrent_requests, scraped_urls, page, site, crawl>>
    /\ UNCHANGED <<scraped_content, scraped_links>>
    /\ UNCHANGED <<html_content, has_readability, summary, extraction, hrefs, base_url,
                   links_out, written>>
    /\ UNCHANGED <<orchvars, taskvars, rlvars, max_connections, closed, pool, active, pool_lock, conn_open,
                   stamp, th, saved, replaced>>

\* _scrape_page, lines 338-357, and _scrape_page_with_links, lines 368-394:
\* the title is read, the page is saved and marked visited, the links are
\* filtered and saved; save_links may find no connection and raise, and the
\* exception leaves through gather
StoreAndReturn(k, u) ==
    /\ cyc[k][u].pc = "title"
    /\ \E ok \in BOOLEAN :
        IF ok /\ ~closed /\ page # NoUrl
        THEN LET html == cyc[k][u].html
                 filtered == FilterLinks(cyc[k][u].links, crawl[k].pattern)
             IN /\ scraped_content' = InsertOrReplace(scraped_content, u, Title(page),
                                                    Text(html), Html(html), stamp)
                /\ scraped_urls' = scraped_urls \cup {u}
                /\ semaphore' = semaphore + 1
                /\ IF ~FollowsLinks(crawl[k].mode)
                   THEN /\ cyc' = [cyc EXCEPT ![k][u].pc = "done",
                                              ![k][u].result = "content",
                                              ![k][u].links = {}]
                        /\ UNCHANGED scraped_links
                   ELSE \E linked \in BOOLEAN :
                        IF linked
                        THEN /\ cyc' = [cyc EXCEPT ![k][u].pc = "done",
                                                   ![k][u].result = "content",
                                                   ![k][u].links = filtered]
                             /\ scraped_links' = SaveLinks(scraped_links, u, filtered)
                        ELSE /\ cyc' = [cyc EXCEPT ![k][u].pc = "done",
                                                   ![k][u].result = "exc",
                                                   ![k][u].links = {}]
                             /\ UNCHANGED scraped_links
                /\ UNCHANGED failed_urls
        ELSE /\ CycleFails(k, u)
             /\ UNCHANGED <<scraped_content, scraped_urls, scraped_links>>
    /\ UNCHANGED <<concurrent_requests, page, site, crawl>>
    /\ UNCHANGED <<procvars, orchvars, taskvars, rlvars, max_connections, closed, pool, active, pool_lock, conn_open,
                   stamp, th, saved, replaced>>

\* convert_to_markdown, lines 146-151: the markup that is converted.  A
\* fragment that is a BeautifulSoup object (readability's summary) is
\* converted itself; one that is a Tag (a selector's match, a text block) is
\* not an instance of BeautifulSoup, and self._last_extracted_html is taken
ConvertSource(content, is_soup, last) ==
    IF is_soup THEN content
    ELSE IF last # NoUrl THEN last
    ELSE content

\* gather has returned: every task of the batch is done
Gathered(k) ==
    /\ crawl[k].phase = "gather"
    /\ \A u \in crawl[k].batch : cyc[k][u].pc = "done"

\* lines 226-247, 275-304 and 185-199: one result of the batch is processed;
\* the file is written or the conversion raises and ends scrape()
ProcessResult(k, u) ==
    /\ Gathered(k)
    /\ u \in crawl[k].batch
    /\ LET rest == crawl[k].batch \ {u}
           next_phase == IF rest # {} THEN "gather"
                         ELSE IF crawl[k].mode = "single" THEN "finish" ELSE "loop"
       IN IF cyc[k][u].result = "exc"
          THEN /\ failed_urls' = failed_urls \cup {u}
               /\ crawl' = [crawl EXCEPT ![k].batch = rest, ![k].phase = next_phase]
               /\ cyc' = [cyc EXCEPT ![k][u] = IdleCycle]
               /\ UNCHANGED written
          ELSE IF cyc[k][u].result = "content"
          THEN \E ok \in BOOLEAN :
                IF ok
                THEN /\ crawl' = [crawl EXCEPT
                            ![k].batch = rest, ![k].phase = next_phase,
                            ![k].pending = @ \cup NewUrls(crawl[k].mode, cyc[k][u].links,
                                                          crawl[k].pattern, scraped_urls)]
                     /\ cyc' = [cyc EXCEPT ![k][u] = IdleCycle]
                     /\ \E is_soup \in BOOLEAN :
                            written' = [url |-> u, source |->
                                ConvertSource(Html(cyc[k][u].html), is_soup,
                                              last_extracted_html)]
                     /\ UNCHANGED failed_urls
                ELSE /\ crawl' = [crawl EXCEPT ![k] = ErrorSummary(crawl[k].mode)]
                     /\ cyc' = [cyc EXCEPT ![k] = [v \in Urls |-> IdleCycle]]
                     /\ UNCHANGED <<failed_urls, written>>
          ELSE /\ crawl' = [crawl EXCEPT ![k].batch = rest, ![k].phase = next_phase]
               /\ cyc' = [cyc EXCEPT ![k][u] = IdleCycle]
               /\ UNCHANGED <<failed_urls, written>>
    /\ UNCHANGED <<concurrent_requests, semaphore, scraped_urls, page, site>>
    /\ UNCHANGED <<scraped_content, scraped_links>>
    /\ UNCHANGED <<html_content, has_readability, summary, extraction, hrefs, base_url,
                   links_out, last_extracted_html>>
    /\ UNCHANGED <<orchvars, taskvars, rlvars, max_connections, closed, pool, active, pool_lock, conn_open,
                   stamp, th, saved, replaced>>

\* scrape(), lines 150-178: the summary is returned
Summarize(k) ==
    /\ crawl[k].phase = "finish"
    /\ crawl' = [crawl EXCEPT ![k] =
                    [IdleCrawl EXCEPT !.phase = "done", !.mode = crawl[k].mode,
                                      !.success = ~closed,
                                      !.pages_scraped = Cardinality(scraped_urls),
                                      !.pages_failed = Cardinality(failed_urls)]]
    /\ UNCHANGED <<concurrent_requests, semaphore, scraped_urls, failed_urls, page, site, cyc>>
    /\ UNCHANGED <<scraped_content, scraped_links>>
    /\ UNCHANGED <<procvars, orchvars, taskvars, rlvars, max_connections, closed, pool, active, pool_lock, conn_open,
                   stamp, th, saved, replaced>>

\* the fetch cycle of url u in invocation k holds the semaphore
InFlight(k, u) == cyc[k][u].pc \in {"rate", "nav", "content", "title"}

\* the fetch cycles in flight on the scraper
InFlightCycles == {c \in Crawls \X Urls : InFlight(c[1], c[2])}

\* C1: at every moment the number of fetch cycles in flight is at most
\* concurrent_requests, and the semaphore counts the free slots exactly
C1_BoundedConcurrency ==
    /\ Cardinality(InFlightCycles) <= concurrent_requests
    /\ semaphore = concurrent_requests - Cardinality(InFlightCycles)

\* every slot is taken and another fetch cycle waits for one
C1_Witness ==
    /\ concurrent_requests = MaxConcurrent
    /\ Cardinality(InFlightCycles) = concurrent_requests
    /\ \E k \in Crawls : \E u \in Urls : cyc[k][u].pc = "wait_sem"

\* C2: within one crawl no url has two fetch cycles in flight at once, and no
\* fetch cycle is in flight for a url that is in the visited set
C2_NoRefetch ==
    \A u \in Urls :
        /\ Cardinality({k \in Crawls : InFlight(k, u)}) <= 1
        /\ (\E k \in Crawls : InFlight(k, u)) => u \notin scraped_urls

\* a task of the batch was created for a visited url and returned without a
\* fetch while another url of the crawl has been fetched
C2_Witness ==
    \E u \in Urls :
        /\ crawl["c1"].phase = "gather"
        /\ u \in crawl["c1"].batch
        /\ u \in scraped_urls
        /\ u \notin failed_urls
        /\ cyc["c1"][u].pc = "done"
        /\ cyc["c1"][u].result = "None"

\* C3: a full_site crawl on a new scraper never visits more pages than the
\* page ceiling
C3_CeilingRespected ==
    crawl["c1"].mode = "full_site" => Cardinality(scraped_urls) <= PageCeiling

\* C4: a url in the failed set is not in the frontier and has no fetch task
C4_FailedNeverRetried ==
    \A u \in failed_urls :
        /\ u \notin crawl["c1"].pending
        /\ cyc["c1"][u].pc \in {"none", "done"}

\* C5: every crawl terminates, and its loop ends only when the frontier is
\* empty or, in full_site mode, when the page ceiling is reached
C5_Terminates ==
    /\ <>(crawl["c1"].phase = "done")
    /\ [](crawl["c1"].phase = "finish" /\ crawl["c1"].mode # "single" =>
            \/ crawl["c1"].pending = {}
            \/ /\ crawl["c1"].mode = "full_site"
               /\ Cardinality(scraped_urls) >= PageCeiling)

\* a full_site crawl has ended at the page ceiling with urls left in the frontier
C5_Witness ==
    /\ crawl["c1"].phase = "finish"
    /\ crawl["c1"].mode = "full_site"
    /\ crawl["c1"].pending # {}
    /\ Cardinality(scraped_urls) >= PageCeiling

\* C11: when the fetch or the extraction of a url fails, the url enters the
\* failed set, no page record is written, the crawl's frontier and the other
\* tasks are left as they are, and every url still in the frontier is
\* dispatched later unless the loop has ended
C11_FailureContained ==
    /\ [][\A u \in Urls :
            cyc["c1"][u].pc \in {"nav", "content"} /\ cyc'["c1"][u].pc = "done" =>
                /\ u \in failed_urls'
                /\ scraped_content' = scraped_content
                /\ scraped_urls' = scraped_urls
                /\ crawl' = crawl
                /\ \A v \in Urls \ {u} : cyc'["c1"][v] = cyc["c1"][v]]_vars
    /\ \A v \in Urls :
          [](failed_urls # {} /\ v \in crawl["c1"].pending =>
                <>(cyc["c1"][v].pc = "start" \/ crawl["c1"].phase \in {"finish", "done"}))

\* with one slot, a url is in flight after another url's fetch has failed
C11_Witness ==
    /\ concurrent_requests = 1
    /\ \E u \in failed_urls : u \notin scraped_urls
    /\ \E v \in Urls : InFlight("c1", v) /\ v \notin failed_urls

\* C12: in a crawl that follows links, the step that adds a url to the
\* visited set leaves its page record and its link-edge set persisted
C12_PersistedBeforeVisited ==
    [][\A u \in Urls :
          /\ crawl["c1"].mode # "single"
          /\ u \notin scraped_urls
          /\ u \in scraped_urls'
          => /\ scraped_content'[u] # <<>>
             /\ scraped_links'[u] =
                   SaveLinks(scraped_links, u,
                             FilterLinks(cyc["c1"][u].links, crawl["c1"].pattern))[u]]_vars

\* C13: at every point of a crawl loop no url is both in the visited set and
\* in the pending frontier
C13_VisitedPendingDisjoint ==
    crawl["c1"].phase \in {"loop", "gather"} =>
        crawl["c1"].pending \cap scraped_urls = {}

\* the targets stored for a source
EdgeTargets(u) == {scraped_links[u][i].target_url : i \in 1..Len(scraped_links[u])}

\* the urls whose page record holds the document of a response with a status
\* of 400 or more
ErrorRecords ==
    {u \in Urls : \E i \in 1..Len(scraped_content[u]) : \E v \in Urls :
                    scraped_content[u][i].html = Html(ErrorPage(v))}

\* C14: a full_site crawl of the three-page site that exhausts its frontier
\* with no failure and no error response ends with one page record per page and exactly the edges
\* A->B, A->C and B->A, each stored once
C14_FixtureCrawl ==
    /\ crawl["c1"].phase = "finish"
    /\ crawl["c1"].mode = "full_site"
    /\ crawl["c1"].pending = {}
    /\ failed_urls = {}
    /\ ErrorRecords = {}
    => \A u \in Urls :
          /\ Len(scraped_content[u]) = 1
          /\ EdgeTargets(u) = FixtureLinks(u)
          /\ Len(scraped_links[u]) = Cardinality(FixtureLinks(u))

\* the pattern https://ex.com/docs/*
DocsPattern == <<"s", "/", "d", "/", "*">>

\* C15: in a wildcard crawl the links of a scraped page that are kept, and of
\* these the ones not yet visited that enter the frontier, are exactly the
\* links that start with the text of the pattern before its first '*';
\* https://ex.com/docs/* accepts https://ex.com/docs/a/b and rejects
\* https://ex.com/blog/a
C15_PrefixFilter ==
    /\ MatchesPattern(<<"s", "/", "d", "/", "a", "/", "b">>, DocsPattern)
    /\ ~MatchesPattern(<<"s", "/", "b", "/", "a">>, DocsPattern)
    /\ [][\A u \in Urls :
            LET c == crawl["c1"]
                prefix == Before(c.pattern, "*")
            IN /\ c.mode = "wildcard" /\ cyc["c1"][u].pc = "title"
                  /\ cyc'["c1"][u].result = "content"
                  => cyc'["c1"][u].links =
                        {l \in cyc["c1"][u].links : StartsWith(l, prefix)}
               /\ c.mode = "wildcard" /\ cyc["c1"][u].result = "content"
                  /\ cyc'["c1"][u].pc = "none" /\ crawl'["c1"].phase # "done"
                  => crawl'["c1"].pending =
                        c.pending \cup {l \in cyc["c1"][u].links :
                                          StartsWith(l, prefix) /\ l \notin scraped_urls}]_vars

\* the crawl of https://ex.com/docs/* has scraped its seed and holds only the
\* page under the prefix in its frontier
C15_Witness ==
    /\ crawl["c1"].mode = "wildcard"
    /\ crawl["c1"].pattern = DocsPattern
    /\ crawl["c1"].phase = "loop"
    /\ scraped_urls = {UB}
    /\ crawl["c1"].pending = {UC}

\* seed is prefix without the slashes at its end
StrippedOf(seed, prefix) ==
    /\ Len(seed) <= Len(prefix)
    /\ SubSeq(prefix, 1, Len(seed)) = seed
    /\ \A i \in (Len(seed) + 1)..Len(prefix) : prefix[i] = "/"
    /\ seed # <<>> => seed[Len(seed)] # "/"

\* a wildcard crawl that has not finished a fetch yet
BeforeFirstFetch ==
    /\ crawl["c1"].mode = "wildcard"
    /\ crawl["c1"].phase \in {"loop", "gather"}
    /\ scraped_urls = {}
    /\ failed_urls = {}

\* C16 as stated: the first url a wildcard crawl fetches is the text of the
\* pattern before its first '*'
C16_SeedIsPrefix ==
    BeforeFirstFetch =>
        crawl["c1"].pending \cup crawl["c1"].batch = {Before(crawl["c1"].pattern, "*")}

\* C16 amended: the first url a wildcard crawl fetches is the text of the
\* pattern before its first '*' without the slashes at its end
C16_SeedIsStrippedPrefix ==
    BeforeFirstFetch =>
        \E seed \in Urls :
            /\ crawl["c1"].pending \cup crawl["c1"].batch = {seed}
            /\ StrippedOf(seed, Before(crawl["c1"].pattern, "*"))

\* the crawl of https://ex.com/docs/* is fetching https://ex.com/docs
C16_Witness ==
    /\ BeforeFirstFetch
    /\ crawl["c1"].pattern = DocsPattern
    /\ InFlight("c1", UB)

\* scheme://host of a url
SchemeAndHost(url) == Before(url, "/")

\* C17: in a full_site crawl every url of the frontier has the scheme and the
\* host of the seed
C17_SameHostOnly ==
    crawl["c1"].mode = "full_site" =>
        \A l \in crawl["c1"].pending : SchemeAndHost(l) = crawl["c1"].pattern

\* C18: a single-mode scrape has no frontier, runs at most one fetch task,
\* fetches at most one url and stores no link edge
C18_SingleFetchesSeedOnly ==
    crawl["c1"].mode = "single" =>
        /\ crawl["c1"].pending = {}
        /\ Cardinality({u \in Urls : cyc["c1"][u].pc # "none"}) <= 1
        /\ {u \in Urls : cyc["c1"][u].pc # "none"} \subseteq crawl["c1"].batch
        /\ Cardinality(scraped_urls \cup failed_urls) <= 1
        /\ \A u \in Urls : scraped_links[u] = <<>>

\* a single-mode scrape has returned after storing its page
C18_Witness ==
    /\ crawl["c1"].mode = "single"
    /\ crawl["c1"].phase = "done"
    /\ crawl["c1"].success
    /\ scraped_urls = {UB}
    /\ scraped_content[UB] # <<>>

\* C19: a response with a status of 400 or more makes the fetch fail: no page
\* record holds the document of such a response, and no fetch cycle goes on
\* to read it
C19_ErrorStatusFails ==
    /\ ErrorRecords = {}
    /\ \A u \in Urls :
          cyc["c1"][u].pc \in {"content", "title"} => page # ErrorPage(u)

\* C20: every scrape() call that has ended has returned a summary whose
\* pages_scraped and pages_failed are the sizes of the visited and failed
\* sets; a call that was stopped by an exception reports success = false
C20_SummaryAlways ==
    /\ crawl["c1"].phase = "done" =>
          /\ crawl["c1"].pages_scraped = Cardinality(scraped_urls)
          /\ crawl["c1"].pages_failed = Cardinality(failed_urls)
    /\ crawl["c1"].phase = "done" /\ crawl["c1"].mode \notin Modes =>
          ~crawl["c1"].success

\* a crawl was stopped by an exception after one page was scraped and another
\* had failed, and has returned its summary
C20_Witness ==
    /\ crawl["c1"].phase = "done"
    /\ ~crawl["c1"].success
    /\ crawl["c1"].pages_scraped >= 1
    /\ crawl["c1"].pages_failed >= 1

\* a call with an unknown mode has returned its summary
C20_UnknownMode ==
    /\ crawl["c1"].phase = "done"
    /\ crawl["c1"].mode = "archive"

\* C21: a scrape() call that ends with no page scraped reports success =
\* false
C21_ZeroPagesIsFailure ==
    crawl["c1"].phase = "done" /\ crawl["c1"].success =>
        crawl["c1"].pages_scraped >= 1

\* C22: in a wildcard, docs or full_site crawl no step taken while the
\* results of a batch are processed ends the crawl or drops a url of the
\* frontier: the loop goes on with the other results and the frontier
C22_ConversionFailureIsLocal ==
    [][crawl["c1"].mode \in {"wildcard", "docs", "full_site"}
       /\ crawl["c1"].phase = "gather"
       => /\ crawl'["c1"].phase \in {"gather", "loop"}
          /\ crawl["c1"].pending \subseteq crawl'["c1"].pending]_vars

\* C23: a scrape() call fetches its urls afresh, so a task returns None only
\* for a url whose fetch has failed, and the summary of a single-mode call
\* counts at most the one url of that call
C23_FreshSetsPerCall ==
    /\ \A u \in Urls :
          cyc["c1"][u].pc = "done" /\ cyc["c1"][u].result = "None" => u \in failed_urls
    /\ crawl["c1"].phase = "done" /\ crawl["c1"].mode = "single" =>
          crawl["c1"].pages_scraped + crawl["c1"].pages_failed <= 1

\* the documents a navigation to u can load: the page of u, or the error
\* document the server answers for u
PagesOf(u) == {u, ErrorPage(u)}

\* C30: with concurrent_requests > 1 every page record of a url u holds the
\* html, the text and the title of a page that a navigation to u loaded,
\* never those of a page another fetch cycle's navigation loaded.
C30_OwnPageStored ==
    concurrent_requests > 1 =>
        \A u \in Urls : \A i \in 1..Len(scraped_content[u]) :
            /\ \E p \in PagesOf(u) : scraped_content[u][i].html = Html(p)
            /\ \E p \in PagesOf(u) : scraped_content[u][i].content = Text(p)
            /\ \E p \in PagesOf(u) : scraped_content[u][i].title = Title(p)

\* C33: at every point of a crawl on a new scraper, and in its summary, no
\* url is both in the visited set and in the failed set, and the two counts
\* of the summary add up to the number of distinct urls in the two sets.
C33_VisitedFailedDisjoint ==
    /\ scraped_urls \cap failed_urls = {}
    /\ crawl["c1"].phase = "done" =>
          crawl["c1"].pages_scraped + crawl["c1"].pages_failed =
              Cardinality(scraped_urls \cup failed_urls)

\* C35: the file written for a url u while a wildcard or full_site batch is
\* processed is converted from the fragment extracted from the page that u's
\* own fetch cycle read, never from the fragment of a page extracted later.
C35_FileFromOwnFragment ==
    [][\A k \in Crawls, u \in Urls :
          /\ crawl[k].mode \in {"wildcard", "full_site"}
          /\ u \in crawl[k].batch
          /\ cyc[k][u].result = "content"
          /\ written' # written
          /\ written'.url = u
          => written'.source = Html(cyc[k][u].html)]_vars

CrawlSteps(k, Inputs) ==
    \/ StartScrape(k, Inputs)
    \/ NextBatch(k)
    \/ LoopExit(k)
    \/ \E u \in Urls : CycleStart(k, u)
    \/ \E u \in Urls : RateAcquired(k, u)
    \/ \E u \in Urls : Navigate(k, u)
    \/ \E u \in Urls : GetContent(k, u)
    \/ \E u \in Urls : StoreAndReturn(k, u)
    \/ \E u \in Urls : ProcessResult(k, u)
    \/ Summarize(k)

\* the end of the fetch cycle of a page and the processing of its result
LinkNext ==
    \/ \E u \in Urls : StoreAndReturn("c1", u)
    \/ \E u \in Urls : ProcessResult("c1", u)

\* scrape() invocations that may overlap on the one scraper, as the tasks of
\* TaskExecutor do
CrawlNext ==
    \/ \E k \in Crawls :
          CrawlSteps(k, IF k = "c1" THEN ScrapeInputs ELSE SingleInputs)
    \/ \E k \in Crawls : \E u \in Urls : SemWake(k, u)

\* one scrape() invocation
SoloNext == CrawlSteps("c1", ScrapeInputs)

(***************************************************************************)
(* ContentProcessor: extract_content                                       *)
(*                                                                         *)
(* A document is the sequence of its top-level elements in document order. *)
(* The tag "div" stands for div, section and main.  The class              *)
(* "post-content" is matched by an allowlisted selector, the class         *)
(* "sidebar" by an unwanted one.  text is the length of                    *)
(* get_text(strip=True); list tells whether the element has a ul or menu   *)
(* descendant (a nav descendant is decomposed at lines 84-89 and so never  *)
(* counts at line 118).                                                    *)
(***************************************************************************)
Tags == {"div", "article"}
Classes == {"", "post-content", "sidebar"}
TextLens == {0, 100, 101, 200, 201, 300}
\* the list flag is read for a div only; an unwanted element is removed
\* whatever it holds, so one text length stands for all
Element ==
    {e \in [tag : Tags, class : Classes, text : TextLens, list : BOOLEAN] :
        /\ e.tag = "article" => ~e.list
        /\ e.class = "sidebar" => e.text = 300 /\ ~e.list}
Docs == UNION {[1..n -> Element] : n \in 0..MaxElems}

\* Document(html).summary(): it raises, or returns markup with this much text
Summaries == {[raised |-> TRUE, text |-> 0],
              [raised |-> FALSE, text |-> 0],
              [raised |-> FALSE, text |-> 201]}

NoExtraction == [status |-> "none", by |-> "", text |-> 0]
\* raise ContentProcessorError
Failure == [status |-> "error", by |-> "", text |-> 0]
\* the fragment returned, the strategy that chose it, the length of its text
Fragment(by, text) == [status |-> "ok", by |-> by, text |-> text]

NoLinks == [returned |-> FALSE, list |-> <<>>]

\* no file has been written
NoFile == [url |-> NoUrl, source |-> NoUrl]

\* no call of the content processor has been made
ProcIdle ==
    /\ html_content = <<>>
    /\ has_readability = FALSE
    /\ summary = [raised |-> FALSE, text |-> 0]
    /\ extraction = NoExtraction
    /\ hrefs = <<>>
    /\ base_url = UA
    /\ links_out = NoLinks
    /\ last_extracted_html = NoUrl
    /\ written = NoFile

\* lines 84-89: the elements that match an unwanted selector are removed
RemoveUnwanted(doc) == SelectSeq(doc, LAMBDA e : e.class # "sidebar")

\* the selectors of lines 48-71 that an element of the model can match, in
\* the order of the list
ContentSelectors == <<".post-content", "article">>

Matches(e, selector) ==
    IF selector = ".post-content" THEN e.class = "post-content"
    ELSE e.tag = "article"

\* line 95: select_one gives the first match in document order, 0 for None
SelectOne(doc, selector) ==
    IF \E i \in 1..Len(doc) : Matches(doc[i], selector)
    THEN CHOOSE i \in 1..Len(doc) :
            /\ Matches(doc[i], selector)
            /\ \A j \in 1..(i - 1) : ~Matches(doc[j], selector)
    ELSE 0

RECURSIVE TrySelectors(_, _)
\* lines 94-102: the first selector, from the k-th on, whose first match holds
\* more than 100 characters
TrySelectors(doc, k) ==
    IF k > Len(ContentSelectors) THEN 0
    ELSE LET i == SelectOne(doc, ContentSelectors[k])
         IN IF i # 0 /\ doc[i].text > 100 THEN i ELSE TrySelectors(doc, k + 1)

\* lines 116-121
TextBlocks(doc) ==
    {i \in 1..Len(doc) : doc[i].tag = "div" /\ ~doc[i].list /\ doc[i].text > 200}

\* the first text block, whatever its length
FirstBlock(doc) ==
    LET B == TextBlocks(doc)
    IN IF B = {} THEN 0 ELSE CHOOSE i \in B : \A j \in B : i <= j

\* lines 123-124: max() gives the first of the blocks of the greatest length
LargestBlock(doc) ==
    LET B == TextBlocks(doc)
    IN IF B = {} THEN 0
       ELSE CHOOSE i \in B :
               \A j \in B : \/ doc[j].text < doc[i].text
                            \/ doc[j].text = doc[i].text /\ i <= j

\* a test that accepts a fragment without text
IsMissing(found, text) == ~found

\* line 127
IsEmptyFragment(found, text) == ~found \/ text = 0

\* extract_content, lines 74-140
ExtractContent(html, readability, sum) ==
    IF html = <<>> THEN Failure
    ELSE LET soup == RemoveUnwanted(html)
             sel == TrySelectors(soup, 1)
             blk == LargestBlock(soup)
             main_content ==
                 IF sel # 0 THEN Fragment("selector", soup[sel].text)
                 ELSE IF readability THEN Fragment("readability", sum.text)
                 ELSE IF blk # 0 THEN Fragment("largest", soup[blk].text)
                 ELSE NoExtraction
         IN IF sel = 0 /\ readability /\ sum.raised THEN Failure
            ELSE IF IsEmptyFragment(main_content.status = "ok", main_content.text)
            THEN Failure
            ELSE main_content

\* extract_content is called on the markup
ExtractContentCall ==
    /\ extraction.status = "none"
    /\ extraction' = ExtractContent(html_content, has_readability, summary)
    /\ last_extracted_html' = IF extraction'.status = "ok" THEN <<extraction'.by>>
                              ELSE last_extracted_html
    /\ UNCHANGED <<html_content, has_readability, summary, hrefs, base_url, links_out,
                   written>>
    /\ UNCHANGED <<rlvars, storevars, crawlvars, orchvars, taskvars>>

ExtractNext == ExtractContentCall

\* the markup after the unwanted elements are removed
Soup == RemoveUnwanted(html_content)

\* C26: extract_content never returns a fragment whose stripped text is
\* empty; it raises ContentProcessorError when the input is empty, and when
\* no allowlisted selector's match holds more than 100 characters and the
\* fallback (readability where installed, else the largest text block) yields
\* nothing.
C26_NeverEmptyFragment ==
    extraction.status # "none" =>
        /\ extraction.status = "ok" => extraction.text > 0
        /\ html_content = <<>> => extraction.status = "error"
        /\ /\ \A k \in 1..Len(ContentSelectors) :
                  LET i == SelectOne(Soup, ContentSelectors[k])
                  IN i = 0 \/ Soup[i].text <= 100
           /\ IF has_readability
              THEN summary.raised \/ summary.text = 0
              ELSE TextBlocks(Soup) = {}
           => extraction.status = "error"

\* C26 witness: readability returned markup without text for markup that is
\* not empty, and extract_content raised.
C26_Witness ==
    /\ extraction.status = "error"
    /\ html_content # <<>>
    /\ has_readability /\ ~summary.raised /\ summary.text = 0

\* markup whose only container is a div of no allowlisted class with more
\* than 200 characters
LoneDiv ==
    /\ Len(html_content) = 1
    /\ html_content[1].tag = "div"
    /\ html_content[1].class = ""
    /\ html_content[1].text > 200

\* C27 as stated: for markup whose only container is a div that matches no
\* allowlisted selector and holds more than 200 characters, extract_content
\* returns a non-empty fragment chosen by the largest-text-block fallback.
C27_LoneDivByLargestBlock ==
    extraction.status # "none" /\ LoneDiv =>
        /\ extraction.status = "ok"
        /\ extraction.by = "largest"
        /\ extraction.text > 0

\* C27: where readability is not installed, markup whose only container is a
\* div that matches no allowlisted selector, has no ul or menu descendant and
\* holds more than 200 characters yields that div through the largest-text-block
\* fallback; whenever that fallback chooses, readability is not installed and
\* the block is a div/section/main without such descendants, with more than
\* 200 characters, and no other such block has more text.
C27_LargestBlockFallback ==
    extraction.status # "none" =>
        /\ LoneDiv /\ ~has_readability /\ ~html_content[1].list =>
              extraction = Fragment("largest", html_content[1].text)
        /\ extraction.by = "largest" =>
              /\ ~has_readability
              /\ extraction.text > 200
              /\ \E i \in 1..Len(Soup) :
                    /\ Soup[i].tag = "div" /\ ~Soup[i].list
                    /\ Soup[i].text = extraction.text
              /\ \A i \in 1..Len(Soup) :
                    Soup[i].tag = "div" /\ ~Soup[i].list =>
                        Soup[i].text <= extraction.text

\* C27 witness: of two text blocks the second is the longer one, and it is
\* the fragment returned.
C27_Witness ==
    /\ Len(html_content) = 2
    /\ TextBlocks(html_content) = {1, 2}
    /\ html_content[1].text < html_content[2].text
    /\ extraction = Fragment("largest", html_content[2].text)

(***************************************************************************)
(* ContentProcessor: extract_links                                         *)
(*                                                                         *)
(* An href is a sequence of tokens like a URL: "h" stands for              *)
(* http://ex.com, "#" opens a fragment, "javascript:", "mailto:" and       *)
(* "ftp:" are schemes; an href that starts with "/" or with a path segment *)
(* is relative, the empty href is href="".                                 *)
(***************************************************************************)
HrefValues ==
    {UB, <<"h", "/", "d">>, <<"#", "f">>, <<"javascript:", "v">>,
     <<"mailto:", "m">>, <<"ftp:", "/", "d">>, <<"x">>, <<"/", "x">>,
     <<"x", "#", "f">>, <<>>}

HrefLists == UNION {[1..n -> HrefValues] : n \in 0..MaxHrefs}

\* line 278: href.startswith(('http://', 'https://', '#', 'javascript:', 'mailto:'))
IsResolved(href) ==
    href # <<>> /\ Head(href) \in {"s", "t", "h", "#", "javascript:", "mailto:"}

\* line 283: href.startswith(('http://', 'https://'))
IsHttp(href) == href # <<>> /\ Head(href) \in {"s", "t", "h"}

\* the position of the last "/" of a url, 0 when it has none
LastSlash(url) ==
    IF \E i \in 1..Len(url) : url[i] = "/"
    THEN CHOOSE i \in 1..Len(url) :
            url[i] = "/" /\ \A j \in (i + 1)..Len(url) : url[j] # "/"
    ELSE 0

\* line 280, urllib.parse.urljoin: an empty url gives the base, a url with a
\* scheme of its own is returned as it is, a path that starts with "/"
\* replaces the path of the base, any other path replaces its last segment
UrlJoin(base, url) ==
    IF url = <<>> THEN base
    ELSE IF Head(url) = "ftp:" THEN url
    ELSE IF Head(url) = "/" THEN Domain(base) \o url
    ELSE IF LastSlash(base) = 0 THEN base \o <<"/">> \o url
    ELSE SubSeq(base, 1, LastSlash(base)) \o url

RECURSIVE CollectLinks(_, _)
\* lines 273-284: the loop over the <a href> tags
CollectLinks(hs, base) ==
    IF hs = <<>> THEN <<>>
    ELSE LET href == IF IsResolved(Head(hs)) THEN Head(hs)
                     ELSE UrlJoin(base, Head(hs))
         IN (IF IsHttp(href) THEN <<href>> ELSE <<>>)
            \o CollectLinks(Tail(hs), base)

Range(seq) == {seq[i] : i \in 1..Len(seq)}

\* a return of the list as collected
KeepDuplicates(hs, base) == CollectLinks(hs, base)

\* extract_links, lines 271-286: list(set(links))
ExtractLinks(hs, base) == SetToSeq(Range(CollectLinks(hs, base)))

\* extract_links is called on the page
ExtractLinksCall ==
    /\ ~links_out.returned
    /\ links_out' = [returned |-> TRUE, list |-> ExtractLinks(hrefs, base_url)]
    /\ UNCHANGED <<html_content, has_readability, summary, extraction, hrefs, base_url,
                   last_extracted_html, written>>
    /\ UNCHANGED <<rlvars, storevars, crawlvars, orchvars, taskvars>>

LinksNext == ExtractLinksCall

\* what a browser makes of a relative href of the model on a page at base
Resolved(base, href) ==
    IF href = <<>> THEN base
    ELSE IF Head(href) = "/" THEN <<"s">> \o href
    ELSE IF base = UC THEN <<"s", "/", "d", "/">> \o href
    ELSE <<"s", "/">> \o href

\* the hrefs that are relative references
IsRelative(href) ==
    href = <<>> \/ Head(href) \notin {"s", "t", "h", "#", "javascript:", "mailto:", "ftp:"}

Post == [listed : BOOLEAN, poster : BOOLEAN]
PostLists == UNION {[1..n -> Post] : n \in 0..MaxPosts}

\* idx counts the posts the loop has taken up; browser is the local variable
\* (0 for None, else the browser made for post idx); attempted, raised and
\* skipped record the posts for which a browser was asked for, which raised,
\* and which had no poster class
IdleOrch ==
    [pc |-> "idle", idx |-> 0, browser |-> 0, attempted |-> {}, raised |-> {},
     skipped |-> {}]

\* post_to_platforms is not running
OrchIdle ==
    /\ posts = <<>>
    /\ orch = IdleOrch
    /\ open_browsers = {}
    /\ results = <<>>

\* post_to_platforms is called, lines 37-49
OrchCall ==
    /\ orch.pc = "idle"
    /\ posts' \in PostLists
    /\ orch' = [IdleOrch EXCEPT !.pc = "loop"]
    /\ results' = <<>>
    /\ UNCHANGED open_browsers
    /\ UNCHANGED <<rlvars, storevars, crawlvars, procvars, taskvars>>

\* lines 52-58: the loop takes up the next post; a post for a platform that
\* was not asked for is passed over
NextPost ==
    /\ orch.pc = "loop"
    /\ orch.idx < Len(posts)
    /\ orch' = [orch EXCEPT !.idx = orch.idx + 1,
                            !.browser = 0,
                            !.pc = IF posts[orch.idx + 1].listed THEN "create"
                                   ELSE "loop"]
    /\ UNCHANGED <<posts, open_browsers, results>>
    /\ UNCHANGED <<rlvars, storevars, crawlvars, procvars, taskvars>>

\* lines 61-65: BrowserFactory.create returns a browser or raises
CreateBrowser ==
    /\ orch.pc = "create"
    /\ \E ok \in BOOLEAN :
        IF ok
        THEN /\ orch' = [orch EXCEPT !.browser = orch.idx, !.pc = "init",
                                     !.attempted = @ \cup {orch.idx}]
             /\ open_browsers' = open_browsers \cup {orch.idx}
        ELSE /\ orch' = [orch EXCEPT !.pc = "except",
                                     !.attempted = @ \cup {orch.idx},
                                     !.raised = @ \cup {orch.idx}]
             /\ UNCHANGED open_browsers
    /\ UNCHANGED <<posts, results>>
    /\ UNCHANGED <<rlvars, storevars, crawlvars, procvars, taskvars>>

\* line 66: browser.initialize() returns or raises
InitializeBrowser ==
    /\ orch.pc = "init"
    /\ \E ok \in BOOLEAN :
        orch' = IF ok THEN [orch EXCEPT !.pc = "poster"]
                ELSE [orch EXCEPT !.pc = "except", !.raised = @ \cup {orch.idx}]
    /\ UNCHANGED <<posts, open_browsers, results>>
    /\ UNCHANGED <<rlvars, storevars, crawlvars, procvars, taskvars>>

\* lines 69-72: without a poster class the post is skipped by continue, which
\* runs the finally block
GetPosterClass ==
    /\ orch.pc = "poster"
    /\ orch' = IF posts[orch.idx].poster THEN [orch EXCEPT !.pc = "post"]
               ELSE [orch EXCEPT !.pc = "finally", !.skipped = @ \cup {orch.idx}]
    /\ UNCHANGED <<posts, open_browsers, results>>
    /\ UNCHANGED <<rlvars, storevars, crawlvars, procvars, taskvars>>

\* lines 75-90: poster.post returns a result, which is appended, or raises
PostContent ==
    /\ orch.pc = "post"
    /\ \E outcome \in {"success", "failure", "raised"} :
        IF outcome = "raised"
        THEN /\ orch' = [orch EXCEPT !.pc = "except", !.raised = @ \cup {orch.idx}]
             /\ UNCHANGED results
        ELSE /\ orch' = [orch EXCEPT !.pc = "finally"]
             /\ results' = Append(results, [post |-> orch.idx,
                                            success |-> outcome = "success"])
    /\ UNCHANGED <<posts, open_browsers>>
    /\ UNCHANGED <<rlvars, storevars, crawlvars, procvars, taskvars>>

\* lines 92-98: except Exception
ExceptBranch ==
    /\ orch.pc = "except"
    /\ results' = Append(results, [post |-> orch.idx, success |-> FALSE])
    /\ orch' = [orch EXCEPT !.pc = "finally"]
    /\ UNCHANGED <<posts, open_browsers>>
    /\ UNCHANGED <<rlvars, storevars, crawlvars, procvars, taskvars>>

\* a finally block that leaves the browser open
KeepOpen(browsers, b) == browsers

\* line 103: browser.close(), which swallows its own errors
\* (stealth_browser.py lines 560-611)
CloseBrowser(browsers, b) == browsers \ {b}

\* lines 99-105: the finally block
FinallyBlock ==
    /\ orch.pc = "finally"
    /\ open_browsers' = IF orch.browser # 0
                        THEN CloseBrowser(open_browsers, orch.browser)
                        ELSE open_browsers
    /\ orch' = [orch EXCEPT !.pc = "loop"]
    /\ UNCHANGED <<posts, results>>
    /\ UNCHANGED <<rlvars, storevars, crawlvars, procvars, taskvars>>

\* line 107: return results
ReturnResults ==
    /\ orch.pc = "loop"
    /\ orch.idx = Len(posts)
    /\ orch' = [orch EXCEPT !.pc = "done"]
    /\ UNCHANGED <<posts, open_browsers, results>>
    /\ UNCHANGED <<rlvars, storevars, crawlvars, procvars, taskvars>>

OrchNext ==
    \/ OrchCall
    \/ NextPost
    \/ CreateBrowser
    \/ InitializeBrowser
    \/ GetPosterClass
    \/ PostContent
    \/ ExceptBranch
    \/ FinallyBlock
    \/ ReturnResults

\* C29: in post_to_platforms no browser is open when the loop takes up the
\* next post or when the call returns, whether the post succeeded, raised or
\* was skipped for lack of a poster class; only the browser of the current
\* post is ever open; a post that raised has a result with success = false;
\* and when the call returns every post of a platform asked for was
\* attempted, those after a post that raised included.
C29_BrowsersClosed ==
    /\ open_browsers \subseteq {orch.idx}
    /\ orch.pc \in {"loop", "done"} =>
          /\ open_browsers = {}
          /\ \A i \in orch.raised :
                \E k \in 1..Len(results) :
                    results[k] = [post |-> i, success |-> FALSE]
    /\ orch.pc = "done" =>
          orch.attempted = {i \in 1..Len(posts) : posts[i].listed}

\* C29 witness: the call has returned after a post that raised, a post
\* without a poster class and a post that succeeded, each with its own
\* browser.
C29_Witness ==
    /\ orch.pc = "done"
    /\ orch.attempted = {1, 2, 3}
    /\ orch.raised = {1}
    /\ orch.skipped = {2}
    /\ results = <<[post |-> 1, success |-> FALSE], [post |-> 3, success |-> TRUE]>>
    /\ open_browsers = {}

(***************************************************************************)
(* TaskQueue and PriorityTaskQueue: process_all; TaskExecutor.execute_task *)
(*                                                                         *)
(* The coroutines run on one event loop, so the code between two points of *)
(* suspension is one step.  process_all does not suspend before its        *)
(* join(): start() only creates the worker tasks, and put() on an          *)
(* unbounded queue returns at once.                                        *)
(***************************************************************************)
Priorities == {1, 2}

\* executor.py lines 21-27: a Task; the tasks of a list differ in their id
Task == [id : 1..MaxTasks, priority : Priorities]
TaskLists ==
    {L \in UNION {[1..n -> Task] : n \in 0..MaxTasks} : \A i \in 1..Len(L) : L[i].id = i}
NoTask == [id |-> 0, priority |-> 0]

\* executor.py lines 29-36: a TaskResult
TaskResult(task, ok) == [task_id |-> task.id, success |-> ok]

IdleWorker == [pc |-> "none", task |-> NoTask]

\* TaskQueue.__init__ (queue.py lines 14-20), PriorityTaskQueue.__init__
\* (priority_queue.py lines 15-19), before process_all(L)
TaskInitWith(class, L) ==
    /\ queue_class = class
    /\ task_list = L
    /\ pa_pc = "idle"
    /\ queue = <<>>
    /\ unfinished_tasks = 0
    /\ running = FALSE
    /\ task_results = <<>>
    /\ workers = [w \in Workers |-> IdleWorker]
    /\ attempts = [i \in 1..MaxTasks |-> 0]

\* no queue is in use
TaskIdle == TaskInitWith("TaskQueue", <<>>)

\* asyncio.PriorityQueue._put is heapq.heappush: the item is appended to the
\* list and sifted down by item < parent.  add_tasks (queue.py line 30, not
\* overridden by PriorityTaskQueue) puts the Task itself, and Task is a
\* dataclass without order, so the comparison raises TypeError as soon as
\* the list holds another item.  asyncio.Queue._put appends to a deque.
PutRaises(class, q) == class = "PriorityTaskQueue" /\ q # <<>>

\* add_tasks, queue.py lines 29-30: the puts up to the end of the list or to
\* the put that raises, which leaves its item in the list and the count of
\* unfinished tasks as it was
RECURSIVE PutAll(_, _, _, _)
PutAll(class, q, n, todo) ==
    IF todo = <<>> THEN [queue |-> q, unfinished |-> n, raised |-> FALSE]
    ELSE IF PutRaises(class, q)
    THEN [queue |-> Append(q, Head(todo)), unfinished |-> n, raised |-> TRUE]
    ELSE PutAll(class, Append(q, Head(todo)), n + 1, Tail(todo))

\* process_all, queue.py lines 96-105: the results are cleared, start() sets
\* _running and creates the workers, add_tasks puts the tasks, and the call
\* waits in join() or leaves with the exception of a put
ProcessAllCall ==
    /\ pa_pc = "idle"
    /\ task_results' = <<>>
    /\ running' = TRUE
    /\ workers' = [w \in Workers |-> [IdleWorker EXCEPT !.pc = "loop"]]
    /\ LET r == PutAll(queue_class, queue, unfinished_tasks, task_list)
       IN /\ queue' = r.queue
          /\ unfinished_tasks' = r.unfinished
          /\ pa_pc' = IF r.raised THEN "raised" ELSE "join"
    /\ UNCHANGED <<queue_class, task_list, attempts>>
    /\ UNCHANGED <<rlvars, storevars, crawlvars, procvars, orchvars>>

\* process_all line 105 and stop(), lines 83-89: join() returns when every
\* item put has been marked done; _running is cleared and the workers are
\* gathered
JoinReturns ==
    /\ pa_pc = "join"
    /\ unfinished_tasks = 0
    /\ running' = FALSE
    /\ pa_pc' = "gather"
    /\ UNCHANGED <<queue_class, task_list, queue, unfinished_tasks, task_results,
                   workers, attempts>>
    /\ UNCHANGED <<rlvars, storevars, crawlvars, procvars, orchvars>>

\* stop() line 89 and process_all line 110: every worker has ended and the
\* results are returned
GatherReturns ==
    /\ pa_pc = "gather"
    /\ \A w \in Workers : workers[w].pc = "done"
    /\ pa_pc' = "returned"
    /\ UNCHANGED <<queue_class, task_list, queue, unfinished_tasks, running,
                   task_results, workers, attempts>>
    /\ UNCHANGED <<rlvars, storevars, crawlvars, procvars, orchvars>>

\* worker, queue.py lines 37-43 and priority_queue.py lines 34-40: the while
\* test, then the wait for an item
WorkerLoopTest(w) ==
    /\ workers[w].pc = "loop"
    /\ workers' = [workers EXCEPT ![w].pc = IF running THEN "get" ELSE "done"]
    /\ UNCHANGED <<queue_class, task_list, pa_pc, queue, unfinished_tasks, running,
                   task_results, attempts>>
    /\ UNCHANGED <<rlvars, storevars, crawlvars, procvars, orchvars>>

\* worker: queue.get() returns an item.  TaskQueue.worker (line 40) takes it
\* as the task.  PriorityTaskQueue.worker (line 37) unpacks it into priority,
\* counter and task: the item is a Task, the unpacking raises TypeError, the
\* except of lines 58-59 logs it, and the loop goes on without task_done()
WorkerGet(w) ==
    /\ workers[w].pc = "get"
    /\ queue # <<>>
    /\ queue' = Tail(queue)
    /\ workers' = IF queue_class = "PriorityTaskQueue"
                  THEN [workers EXCEPT ![w].pc = "loop"]
                  ELSE [workers EXCEPT ![w].pc = "exec", ![w].task = Head(queue)]
    /\ UNCHANGED <<queue_class, task_list, pa_pc, unfinished_tasks, running,
                   task_results, attempts>>
    /\ UNCHANGED <<rlvars, storevars, crawlvars, procvars, orchvars>>

\* worker: wait_for(queue.get(), timeout=1.0) ends with TimeoutError on an
\* empty queue, and the loop goes on (queue.py lines 61-63)
WorkerTimeout(w) ==
    /\ workers[w].pc = "get"
    /\ queue = <<>>
    /\ workers' = [workers EXCEPT ![w].pc = "loop"]
    /\ UNCHANGED <<queue_class, task_list, pa_pc, queue, unfinished_tasks, running,
                   task_results, attempts>>
    /\ UNCHANGED <<rlvars, storevars, crawlvars, procvars, orchvars>>

\* execute_task, executor.py lines 47-87, and worker, queue.py lines 48-54.
\* The action is attempted inside the try of lines 57-74; when it raises, the
\* except of lines 76-87 returns a TaskResult with success False.  No
\* exception leaves the function, so the retry wrapper of lines 47-52 sees a
\* value returned by the first attempt and returns it.  The worker appends
\* the result and marks the item done.  The semaphore of line 59 admits
\* every worker (max_concurrent_tasks is not below num_workers here).
ExecuteTask(w) ==
    /\ workers[w].pc = "exec"
    /\ \E raises \in BOOLEAN :
          task_results' = Append(task_results, TaskResult(workers[w].task, ~raises))
    /\ attempts' = [attempts EXCEPT ![workers[w].task.id] = @ + 1]
    /\ unfinished_tasks' = unfinished_tasks - 1
    /\ workers' = [workers EXCEPT ![w] = [IdleWorker EXCEPT !.pc = "loop"]]
    /\ UNCHANGED <<queue_class, task_list, pa_pc, queue, running>>
    /\ UNCHANGED <<rlvars, storevars, crawlvars, procvars, orchvars>>

\* the steps of the process_all coroutine
ProcessAllSteps == ProcessAllCall \/ JoinReturns \/ GatherReturns

\* the steps of the worker coroutine w
WorkerSteps(w) == WorkerLoopTest(w) \/ WorkerGet(w) \/ WorkerTimeout(w) \/ ExecuteTask(w)

\* PriorityTaskQueue.process_all: no worker ever reaches execute_task
PriorityQueueNext ==
    \/ ProcessAllCall
    \/ JoinReturns
    \/ GatherReturns
    \/ \E w \in Workers : WorkerLoopTest(w)
    \/ \E w \in Workers : WorkerGet(w)
    \/ \E w \in Workers : WorkerTimeout(w)

\* TaskQueue.process_all
TaskQueueNext ==
    \/ ProcessAllCall
    \/ JoinReturns
    \/ GatherReturns
    \/ \E w \in Workers : WorkerLoopTest(w)
    \/ \E w \in Workers : WorkerGet(w)
    \/ \E w \in Workers : WorkerTimeout(w)
    \/ \E w \in Workers : ExecuteTask(w)

\* the results hold exactly one TaskResult for each submitted task
OneResultPerTask ==
    /\ Len(task_results) = Len(task_list)
    /\ \A i \in 1..Len(task_list) :
          \E j \in 1..Len(task_results) : task_results[j].task_id = task_list[i].id

\* C39: PriorityTaskQueue.process_all(tasks) returns, for every task list,
\* and what it returns holds exactly one TaskResult for each task
C39_ProcessAllReturns ==
    <>(pa_pc = "returned" /\ OneResultPerTask)

\* C40: a TaskResult with success False is returned for a task only after
\* its action has been attempted three times
C40_FailureAfterRetries ==
    \A j \in 1..Len(task_results) :
        ~task_results[j].success => attempts[task_results[j].task_id] = MaxAttempts

(***************************************************************************)
(* Specifications                                                          *)
(***************************************************************************)
\* the components as constructed
Init == RLInit /\ TaskIdle /\ ProcIdle /\ OrchIdle /\ StoreInit /\ CrawlInitWith(MaxConcurrent, AnySite)

\* a rate limiter of any burst beside a store and a scraper at rest
InitRate ==
    RLInit /\ TaskIdle /\ ProcIdle /\ OrchIdle /\ StoreInitWith(MaxConnections) /\ CrawlInitWith(MaxConcurrent, AnySite)

\* a store of any pool size beside a rate limiter and a scraper at rest
InitStore ==
    RLInit /\ TaskIdle /\ ProcIdle /\ OrchIdle /\ burst = MaxBurst /\ StoreInit /\ CrawlInitWith(MaxConcurrent, AnySite)

\* a store and a rate limiter at rest beside a new scraper
InitCrawl ==
    /\ RLInit /\ TaskIdle /\ ProcIdle /\ OrchIdle /\ burst = MaxBurst /\ StoreInitWith(MaxConnections)
    /\ \E c \in 1..MaxConcurrent : CrawlInitWith(c, StarSite)

\* a new scraper of any concurrent_requests over any site
InitSolo ==
    /\ RLInit /\ TaskIdle /\ ProcIdle /\ OrchIdle /\ burst = MaxBurst /\ StoreInitWith(MaxConnections)
    /\ \E c \in 1..MaxConcurrent : CrawlInitWith(c, AnySite)

\* a new scraper of any concurrent_requests over the three-page site
InitFixture ==
    /\ RLInit /\ TaskIdle /\ ProcIdle /\ OrchIdle /\ burst = MaxBurst /\ StoreInitWith(MaxConnections)
    /\ \E c \in 1..MaxConcurrent : CrawlInitWith(c, FixtureSite)

\* a full_site crawl on a new scraper at the moment the first page of a batch
\* has been read: the page carries any links, also links to other hosts
InitForeignLinks ==
    /\ RLInit /\ TaskIdle /\ ProcIdle /\ OrchIdle /\ burst = MaxBurst /\ StoreInitWith(MaxConnections)
    /\ \E c \in 1..MaxConcurrent : \E seed \in Urls : \E L \in SUBSET LinkCandidates :
        /\ concurrent_requests = c
        /\ semaphore = c - 1
        /\ scraped_urls = {}
        /\ failed_urls = {}
        /\ page = seed
        /\ site = [u \in Urls |-> {L}]
        /\ crawl = [k \in Crawls |->
                      IF k = "c1"
                      THEN [IdleCrawl EXCEPT !.phase = "gather", !.mode = "full_site",
                                             !.pattern = Domain(seed), !.batch = {seed}]
                      ELSE IdleCrawl]
        /\ cyc = [k \in Crawls |-> [u \in Urls |->
                      IF k = "c1" /\ u = seed
                      THEN [IdleCycle EXCEPT !.pc = "title", !.html = seed, !.links = L]
                      ELSE IdleCycle]]

\* a scraper whose earlier single-mode scrape() calls have visited the urls V
InitReused ==
    /\ RLInit /\ TaskIdle /\ ProcIdle /\ OrchIdle /\ burst = MaxBurst
    /\ \E c \in 1..MaxConcurrent : \E V \in SUBSET Urls :
        /\ concurrent_requests = c
        /\ semaphore = c
        /\ scraped_urls = V
        /\ failed_urls = {}
        /\ IF V = {} THEN page = NoUrl ELSE page \in V
        /\ site = AnySite
        /\ crawl = [k \in Crawls |-> IdleCrawl]
        /\ cyc = [k \in Crawls |-> [u \in Urls |-> IdleCycle]]
        /\ max_connections = MaxConnections
        /\ closed = FALSE
        /\ pool = [i \in 1..MaxConnections |-> i]
        /\ active = {}
        /\ pool_lock = None
        /\ conn_open = 1..MaxConnections
        /\ scraped_content =
              [u \in Urls |-> IF u \in V
                              THEN <<ContentRow(Title(u), Text(u), Html(u), 0)>>
                              ELSE <<>>]
        /\ scraped_links = [u \in Urls |-> <<>>]
        /\ stamp = 0
        /\ th = [t \in Threads |-> IdleThread("none")]
        /\ saved = [u \in Urls |-> [set |-> FALSE, content |-> "", html |-> ""]]
        /\ replaced = [u \in Urls |-> [set |-> FALSE, links |-> <<>>]]

\* the rate limiter alone
SpecRate == InitRate /\ [][RLNext]_vars

\* the store under concurrent threads
SpecStore == InitStore /\ [][StoreNext]_vars

\* the store under one caller
SpecStoreSeq == InitStore /\ [][StoreSeqNext]_vars

\* scrape() invocations that may overlap on a new scraper
SpecCrawl == InitCrawl /\ [][CrawlNext]_vars

\* one scrape() invocation on a new scraper
SpecSolo == InitSolo /\ [][SoloNext]_vars

\* one scrape() invocation on a new scraper; the event loop runs every task
\* that can run, and every awaited call returns or raises
SpecSoloFair == InitSolo /\ [][SoloNext]_vars /\ WF_vars(SoloNext)

\* one scrape() invocation on a scraper that has been used before
SpecReuse == InitReused /\ [][SoloNext]_vars

\* one scrape() invocation on a new scraper over the three-page site
SpecFixture == InitFixture /\ [][SoloNext]_vars

\* the links of one fetched page of a full_site crawl are filtered, stored and
\* put in the frontier
SpecForeignLinks == InitForeignLinks /\ [][LinkNext]_vars

\* threads call every operation of the store and close()
SpecStoreOps == InitStore /\ [][StoreOpsNext]_vars

SpecStoreDistinct ==
    /\ InitStore
    /\ [][StoreDistinctNext]_vars
    /\ \A t \in Threads : WF_vars(StoreSteps(t))

\* extract_content on any markup, with and without readability
InitExtract ==
    /\ RLInit /\ TaskIdle /\ OrchIdle /\ burst = MaxBurst /\ StoreInitWith(MaxConnections)
    /\ CrawlInitWith(MaxConcurrent, AnySite)
    /\ html_content \in Docs
    /\ has_readability \in BOOLEAN
    /\ summary \in IF has_readability THEN Summaries
                   ELSE {[raised |-> FALSE, text |-> 0]}
    /\ extraction = NoExtraction
    /\ hrefs = <<>>
    /\ base_url = UA
    /\ links_out = NoLinks
    /\ last_extracted_html = NoUrl
    /\ written = NoFile

SpecExtract == InitExtract /\ [][ExtractNext]_vars

\* extract_links on any page of up to MaxHrefs links at any base URL
InitLinks ==
    /\ RLInit /\ TaskIdle /\ OrchIdle /\ burst = MaxBurst /\ StoreInitWith(MaxConnections)
    /\ CrawlInitWith(MaxConcurrent, AnySite)
    /\ html_content = <<>>
    /\ has_readability = FALSE
    /\ summary = [raised |-> FALSE, text |-> 0]
    /\ extraction = NoExtraction
    /\ hrefs \in HrefLists
    /\ base_url \in Urls
    /\ links_out = NoLinks
    /\ last_extracted_html = NoUrl
    /\ written = NoFile

SpecLinks == InitLinks /\ [][LinksNext]_vars

\* one call of post_to_platforms with any posts
InitOrch ==
    /\ RLInit /\ TaskIdle /\ ProcIdle /\ OrchIdle /\ burst = MaxBurst
    /\ StoreInitWith(MaxConnections)
    /\ CrawlInitWith(MaxConcurrent, AnySite)

SpecOrch == InitOrch /\ [][OrchNext]_vars

SpecStoreLinks == InitStore /\ [][StoreLinksNext]_vars

SpecStoreFail == InitStore /\ [][StoreFailNext]_vars

\* every operation, on a store that stays open and whose statements may raise
SpecStoreOpen == InitStore /\ [][StoreOpenNext]_vars
\* save_content calls on an open store over two values of CURRENT_TIMESTAMP
SpecStoreClock == InitStore /\ [][StoreClockNext]_vars

\* one call of process_all with any task list on a new PriorityTaskQueue
InitPriorityQueue ==
    /\ RLInit /\ ProcIdle /\ OrchIdle /\ burst = MaxBurst
    /\ StoreInitWith(MaxConnections)
    /\ CrawlInitWith(MaxConcurrent, AnySite)
    /\ \E L \in TaskLists : TaskInitWith("PriorityTaskQueue", L)

\* the event loop runs every coroutine that can go on
SpecPriorityQueue ==
    /\ InitPriorityQueue /\ [][PriorityQueueNext]_vars
    /\ WF_vars(ProcessAllSteps)
    /\ \A w \in Workers : WF_vars(WorkerSteps(w))

\* one call of process_all with any task list on a new TaskQueue
InitTaskQueue ==
    /\ RLInit /\ ProcIdle /\ OrchIdle /\ burst = MaxBurst
    /\ StoreInitWith(MaxConnections)
    /\ CrawlInitWith(MaxConcurrent, AnySite)
    /\ \E L \in TaskLists : TaskInitWith("TaskQueue", L)

SpecTaskQueue == InitTaskQueue /\ [][TaskQueueNext]_vars
====
